---- MODULE Spec2Model ----
(***************************************************************************)
(* Package-level slide assembly of bonaparte233/S2S:                       *)
(*   src/archive/generatePPT_template.py  build_from_json and its helpers  *)
(*   src/generatePPT.py                   generate_ppt, the caller         *)
(*                                                                         *)
(* A package is the table  part name -> part data  that zipfile gives.     *)
(* Part names are pairs <<kind, number>>:                                  *)
(*   <<"slide", k>>      ppt/slides/slide{k}.xml                           *)
(*   <<"slideRels", k>>  ppt/slides/_rels/slide{k}.xml.rels                *)
(*   <<"tag", t>>        ppt/tags/tag{t}.xml                               *)
(*   <<"ct", 0>>         [Content_Types].xml                               *)
(*   <<"presRels", 0>>   ppt/_rels/presentation.xml.rels                   *)
(*   <<"pres", 0>>       ppt/presentation.xml                              *)
(*   <<"media", 1>>      ppt/media/image1.png                              *)
(* Relationship Ids are sequences of characters, so that the parsing of    *)
(* _next_rid (prefix test, isdigit, int) and the formatting f"rId{n}" are  *)
(* computed and not assumed.                                               *)
(***************************************************************************)
EXTENDS Integers, Sequences, FiniteSets, TLC

\* ------------------------------------------------------------------ bounds
\* highest slide number a template part may carry
MaxSlideNum == 3
\* longest content plan (ppt_pages)
MaxPlanLen == 2
\* highest tag number a template part may carry
MaxTagNum == 2

\* --------------------------------------------------------------- constants
\* src/archive/generatePPT_template.py:106   base = 256
base == 256


\* ------------------------------------------------------- strings of digits
DigitChars == <<"0", "1", "2", "3", "4", "5", "6", "7", "8", "9">>

IsDigitChar(c) == \E d \in 1..10 : DigitChars[d] = c

DigitVal(c) == (CHOOSE d \in 1..10 : DigitChars[d] = c) - 1

\* str.isdigit(): non-empty and every character a digit
IsDigit(s) == Len(s) > 0 /\ \A p \in 1..Len(s) : IsDigitChar(s[p])

\* int(s) for a string of decimal digits (leading zeros allowed)
RECURSIVE ParseInt(_)
ParseInt(s) ==
    IF s = <<>> THEN 0
    ELSE 10 * ParseInt(SubSeq(s, 1, Len(s) - 1)) + DigitVal(s[Len(s)])

\* str(n) for n >= 0
RECURSIVE FormatInt(_)
FormatInt(n) ==
    IF n < 10 THEN <<DigitChars[n + 1]>>
    ELSE FormatInt(n \div 10) \o <<DigitChars[(n % 10) + 1]>>

RIdPrefix == <<"r", "I", "d">>

\* f"rId{n}"
RId(n) == RIdPrefix \o FormatInt(n)

\* rid.startswith("rId")
StartsWithRId(rid) == Len(rid) >= 3 /\ SubSeq(rid, 1, 3) = RIdPrefix

\* rid[3:]
Suffix3(rid) == SubSeq(rid, 4, Len(rid))

MaxOf(S) == CHOOSE m \in S : \A x \in S : x <= m

Range(s) == {s[p] : p \in 1..Len(s)}

\* ---------------------------------------------------------- relationships
TagsType == "tags"
SlideType == "slide"

Rel(id, type, abs, part) ==
    [Id |-> id, Type |-> type, Target |-> [abs |-> abs, part |-> part]]

\* a slide's relationship  Target="../tags/tag{t}.xml"  (or the absolute form
\* Target="/ppt/tags/tag{t}.xml" of the same part)
TagRel(n, abs, t) == Rel(RId(n), TagsType, abs, <<"tag", t>>)
ImageRel(n) == Rel(RId(n), "image", FALSE, <<"media", 1>>)

\* posixpath.normpath(posixpath.join("ppt/slides", target)): a relative target
\* resolves to the part's name; an absolute target keeps its leading slash,
\* which no name of the package table has
AbsKind(kind) ==
    CASE kind = "tag" -> "/tag" [] kind = "slide" -> "/slide" [] OTHER -> "/other"

Canonical(target) ==
    IF target.abs THEN <<AbsKind(target.part[1]), target.part[2]>>
    ELSE target.part

\* target.startswith("slides/slide") on a presentation relationship
TargetsSlide(rel) == ~rel.Target.abs /\ rel.Target.part[1] = "slide"


\* ------------------------------------------------------------ package parts
EmptyTable == [n \in {} |-> 0]

\* an opaque part (slide XML, tag XML, media): where it came from and whether
\* somebody edited it since
Blob(name) == [src |-> name, rev |-> 0]

NoFile == [exists |-> FALSE, parts |-> EmptyTable]
File(parts) == [exists |-> TRUE, parts |-> parts]

RECURSIVE Ascending(_)
Ascending(S) ==
    IF S = {} THEN <<>>
    ELSE LET m == CHOOSE x \in S : \A y \in S : x <= y
         IN  <<m>> \o Ascending(S \ {m})

\* A template package: slide parts S, tag parts T, relsOf[k] the relationship
\* file of slide k (for the k that have one), presExtra the presentation's
\* relationships that are not slides, hasLst whether presentation.xml holds a
\* p:sldIdLst.  Slide k is related to the presentation by rId{k+1}.
TemplateSlideRels(S) ==
    [p \in 1..Cardinality(S) |->
        Rel(RId(Ascending(S)[p] + 1), SlideType, FALSE, <<"slide", Ascending(S)[p]>>)]

TemplateOverrides(S, T) ==
    <<(<<"pres", 0>>)>>
    \o [p \in 1..Cardinality(S) |-> <<"slide", Ascending(S)[p]>>]
    \o [p \in 1..Cardinality(T) |-> <<"tag", Ascending(T)[p]>>]

Template(S, T, relsOf, presExtra, hasLst) ==
    LET names == {<<"ct", 0>>, <<"presRels", 0>>, <<"pres", 0>>,
                  <<"master", 1>>, <<"media", 1>>}
                 \cup {<<"slide", k>> : k \in S}
                 \cup {<<"slideRels", k>> : k \in DOMAIN relsOf}
                 \cup {<<"tag", t>> : t \in T}
    IN  [n \in names |->
            CASE n[1] = "ct" -> TemplateOverrides(S, T)
              [] n[1] = "presRels" -> presExtra \o TemplateSlideRels(S)
              [] n[1] = "pres" ->
                    [hasLst |-> hasLst,
                     sldIdLst |->
                        IF hasLst
                        THEN [p \in 1..Cardinality(S) |->
                                [id |-> base + p - 1, rid |-> RId(Ascending(S)[p] + 1)]]
                        ELSE <<>>]
              [] n[1] = "slideRels" -> relsOf[n[2]]
              [] OTHER -> Blob(n)]

\* ------------------------------------------------------ the pure functions
\* mutant of _next_rid: the highest number in use is handed out again
_next_rid_NoIncrement(existing_ids) ==
    LET nums == {ParseInt(Suffix3(rid)) :
                    rid \in {r \in Range(existing_ids) :
                                StartsWithRId(r) /\ IsDigit(Suffix3(r))}}
    IN  IF nums # {} THEN MaxOf(nums) ELSE 1

\* _next_rid(existing_ids)
_next_rid(existing_ids) ==
    LET nums == {ParseInt(Suffix3(rid)) :
                    rid \in {r \in Range(existing_ids) :
                                StartsWithRId(r) /\ IsDigit(Suffix3(r))}}
    IN  (IF nums # {} THEN MaxOf(nums) ELSE 0) + 1

NotSlideRel(rel) == ~TargetsSlide(rel)
HasId(rel) == rel.Id # <<>>

\* _update_presentation_rels(root, slide_count): the rewritten root and the
\* list of new relationship Ids
_update_presentation_rels(root, slide_count) ==
    LET withId == SelectSeq(root, HasId)
        existing == [p \in 1..Len(withId) |-> withId[p].Id]
        start == _next_rid(existing)
        kept == SelectSeq(root, NotSlideRel)
        added == [idx \in 1..slide_count |->
                    Rel(RId(start + idx - 1), SlideType, FALSE, <<"slide", idx>>)]
    IN  [root |-> kept \o added,
         new_rel_ids |-> [idx \in 1..slide_count |-> added[idx].Id]]

\* mutant of _update_presentation_xml: enumerate() taken to count from 1
_update_presentation_xml_FromOne(root, rel_ids) ==
    [hasLst |-> TRUE,
     sldIdLst |-> [p \in 1..Len(rel_ids) |->
                      [id |-> base + p, rid |-> rel_ids[p]]]]

\* _update_presentation_xml(root, rel_ids): p:sldIdLst is created when absent,
\* emptied otherwise, and refilled; enumerate() counts from 0
_update_presentation_xml(root, rel_ids) ==
    [hasLst |-> TRUE,
     sldIdLst |-> [p \in 1..Len(rel_ids) |->
                      [id |-> base + (p - 1), rid |-> rel_ids[p]]]]

\* part.startswith("/ppt/slides/slide") on an Override's PartName
NotSlideOverride(part) == part[1] # "slide"

\* mutant of _update_content_types: the template's slide Overrides stay
_update_content_types_KeepOld(root, slide_count, new_tag_parts) ==
    root
    \o [idx \in 1..slide_count |-> <<"slide", idx>>]
    \o new_tag_parts

\* _update_content_types(root, slide_count, new_tag_parts)
_update_content_types(root, slide_count, new_tag_parts) ==
    SelectSeq(root, NotSlideOverride)
    \o [idx \in 1..slide_count |-> <<"slide", idx>>]
    \o new_tag_parts

\* the name of the next cloned tag part, f"ppt/tags/tag{next_tag_num}.xml"
\* after next_tag_num += 1
NewTagNum(next_tag_num) == next_tag_num + 1

\* clone_tags(rel_bytes): st carries the closure's nonlocal next_tag_num and
\* the two collections it appends to; st.out is the rewritten relationship list
RECURSIVE clone_tags(_, _, _)
clone_tags(rel_tree, st, fb) ==
    IF rel_tree = <<>> THEN st
    ELSE LET rel == Head(rel_tree)
             canonical == Canonical(rel.Target)
         IN  IF rel.Type # TagsType \/ canonical \notin DOMAIN fb
             THEN clone_tags(Tail(rel_tree),
                             [st EXCEPT !.out = Append(@, rel)], fb)
             ELSE LET n == NewTagNum(st.next_tag_num)
                      new_part == <<"tag", n>>
                  IN  clone_tags(
                        Tail(rel_tree),
                        [out |-> Append(st.out,
                                   [rel EXCEPT !.Target =
                                       [abs |-> FALSE, part |-> new_part]]),
                         next_tag_num |-> n,
                         extra_tag_parts |-> Append(st.extra_tag_parts, new_part),
                         extra_tag_files |->
                            (new_part :> fb[canonical]) @@ st.extra_tag_files],
                        fb)

\* slide_map and slide_rel_map of build_from_json
SlideMap(fb) ==
    [k \in {n[2] : n \in {m \in DOMAIN fb : m[1] = "slide"}} |-> fb[<<"slide", k>>]]
SlideRelMap(fb) ==
    [k \in {n[2] : n \in {m \in DOMAIN fb : m[1] = "slideRels"}} |->
        fb[<<"slideRels", k>>]]

\* mutant of InSlideMap: the plan entries are not checked against the template
InSlideMap_Unchecked(tmpl_num, sm) == TRUE

\* "tmpl_num not in slide_map" is what rejects a plan entry
InSlideMap(tmpl_num, sm) == tmpl_num \in DOMAIN sm


\* -------------------------------------------------------------------- state
VARIABLES
    fs,                 \* the file system: path -> file
    pages,              \* data["ppt_pages"] of the plan at json_path
    caller,             \* "build_from_json" (its own main) or "generate_ppt"
    template_path,
    output_path,        \* the output_path argument of build_from_json
    dest,               \* the output path the user named
    pc,                 \* the position in the code
    err,                \* the exception that ended the run
    run,                \* how many times build_from_json was called
    idx,                \* the index of the enumerate() loop being run
    file_bytes, slide_map, slide_rel_map, slide_count,
    next_tag_num, extra_tag_parts, extra_tag_files,
    selected_slides, pres_rels, new_rel_ids, pres_xml,
    prepared_rel_bytes, content_types,
    entry,              \* history: the file system when the user's command began
    calls,              \* history: the file system at each call of build_from_json
    builds,             \* history: the package each completed call wrote
    edited              \* history: the output slide and part an editor changed

inputs == <<pages, caller, template_path, output_path, dest>>
locals == <<idx, file_bytes, slide_map, slide_rel_map, slide_count,
            next_tag_num, extra_tag_parts, extra_tag_files,
            selected_slides, pres_rels, new_rel_ids, pres_xml,
            prepared_rel_bytes, content_types>>
history == <<entry, calls, builds, edited>>
assembly == <<fs, inputs, pc, err, run, locals, history>>

\* the state of one _fill_slide call (src/generatePPT.py:285-371)
VARIABLES
    slide,              \* the shapes of the slide, in document order
    page_content,       \* page.get("content", {}): the items of the dict
    slide_width,        \* prs.slide_width
    image_files,        \* the files behind the image paths of the content
    fpc,                \* the position in _fill_slide
    cursor,             \* the index of the loop being run
    prefix,             \* prefix = _detect_prefix(slide)
    text_placeholders, picture_placeholders,
    used_text_shapes, used_picture_shapes,
    warnings,           \* the warnings printed so far
    raised,             \* the exception that left _fill_slide
    applied,            \* history: each value handed to a shape, and how
    before              \* history: the slide before the last layout call

binder == <<slide, page_content, slide_width, image_files, fpc, cursor, prefix,
            text_placeholders, picture_placeholders, used_text_shapes,
            used_picture_shapes, warnings, raised, applied, before>>

\* the state of the connector snapshot and restore (src/generatePPT.py:483-526)
VARIABLES
    package,            \* the parts of the file at pptx_path
    connectors,         \* the snapshot: slide index -> snippets
    rpc,                \* the position in the snapshot / restore pipeline
    io,                 \* how often the file was read and rewritten
    package_before,     \* history: the parts when _restore_connectors began
    temp_ppt            \* history: the parts of temp_ppt, as they were built

restorer == <<package, connectors, rpc, io, package_before, temp_ppt>>

\* the state of the generation jobs and of the requests that start them
\* (src/web/ppt_generator/views.py:191-373, models.py:296-325)
VARIABLES
    job_status,         \* the table of PPTGeneration rows: pk -> status
    handler,            \* request -> where start_generation stands, and its
                        \* local generation object
    job_trail,          \* history: the statuses each row has held, in order
    pipeline_runs       \* history: how often the pipeline began, per row

web == <<job_status, handler, job_trail, pipeline_runs>>

elsewhere == <<binder, restorer, web>>
vars == <<assembly, binder, restorer, web>>

\* no _fill_slide call is under way
BinderIdle ==
    /\ slide = <<>>
    /\ page_content = <<>>
    /\ slide_width = 0
    /\ image_files = <<>>
    /\ fpc = "idle"
    /\ cursor = 0
    /\ prefix = <<>>
    /\ text_placeholders = <<>>
    /\ picture_placeholders = <<>>
    /\ used_text_shapes = {}
    /\ used_picture_shapes = {}
    /\ warnings = <<>>
    /\ raised = "none"
    /\ applied = <<>>
    /\ before = [slide |-> <<>>, shape |-> 0]

\* no snapshot or restore is under way
RestorerIdle ==
    /\ package = <<>>
    /\ connectors = <<>>
    /\ rpc = "idle"
    /\ io = [reads |-> 0, writes |-> 0]
    /\ package_before = <<>>
    /\ temp_ppt = <<>>

\* no request is under way
WebIdle ==
    /\ job_status = <<>>
    /\ handler = <<>>
    /\ job_trail = <<>>
    /\ pipeline_runs = <<>>

Paths == {"tpl", "out", "tmp"}

NoErr == [kind |-> "none", idx |-> 0, tmpl_num |-> 0]
Error(kind, i, n) == [kind |-> kind, idx |-> i, tmpl_num |-> n]
NoEdit == [slide |-> 0, part |-> <<"none", 0>>]

\* a plan entry: page.get("template_page_num") is None when has_num is FALSE
Page(n) == [has_num |-> TRUE, template_page_num |-> n]
PageWithoutNum == [has_num |-> FALSE, template_page_num |-> 0]
PageNums == 0..(MaxSlideNum + 1)
Pages == {Page(n) : n \in PageNums} \cup {PageWithoutNum}
Plans == UNION {[1..n -> Pages] : n \in 0..MaxPlanLen}

\* ------------------------------------------------------------ initial states
BaseTags == {1}
BaseRelsOf(S) ==
    [k \in S \ {2} |->
        IF k = 1 THEN <<TagRel(1, FALSE, 1), ImageRel(2)>>
        ELSE <<TagRel(1, FALSE, 1)>>]
BasePresExtra == <<Rel(RId(1), "slideMaster", FALSE, <<"master", 1>>)>>

\* relationship lists of a slide: up to two relationships, each an image or
\* a tags relationship (relative or absolute) to tag 1..MaxTagNum+1
RelChoices ==
    {[tags |-> FALSE, abs |-> FALSE, t |-> 0]}
    \cup {[tags |-> TRUE, abs |-> a, t |-> t] : a \in BOOLEAN, t \in 1..(MaxTagNum + 1)}
MakeRel(n, c) == IF c.tags THEN TagRel(n, c.abs, c.t) ELSE ImageRel(n)
RelLists ==
    {<<>>}
    \cup {<<MakeRel(1, c)>> : c \in RelChoices}
    \cup {<<MakeRel(1, c), MakeRel(2, d)>> : c \in RelChoices, d \in RelChoices}

\* Ids a template gives its presentation relationships that are not slides
IdPool ==
    {RId(1), <<"r", "I", "d", "0", "7">>, RId(9), <<"f", "o", "o">>,
     <<"r", "I", "d", "x">>, <<>>}
PresExtras ==
    {<<>>}
    \cup {<<Rel(a, "slideMaster", FALSE, <<"master", 1>>)>> : a \in IdPool}
    \cup UNION {{<<Rel(a, "slideMaster", FALSE, <<"master", 1>>),
                    Rel(b, "theme", FALSE, <<"media", 1>>)>> :
                      b \in IdPool \ {a}} : a \in IdPool}

ShortPlans == {<<Page(1)>>, <<Page(1), Page(1)>>, <<Page(2), Page(1)>>}

InitLocals ==
    /\ idx = 0
    /\ file_bytes = EmptyTable
    /\ slide_map = EmptyTable
    /\ slide_rel_map = EmptyTable
    /\ slide_count = 0
    /\ next_tag_num = 0
    /\ extra_tag_parts = <<>>
    /\ extra_tag_files = EmptyTable
    /\ selected_slides = <<>>
    /\ pres_rels = <<>>
    /\ new_rel_ids = <<>>
    /\ pres_xml = [hasLst |-> FALSE, sldIdLst |-> <<>>]
    /\ prepared_rel_bytes = EmptyTable
    /\ content_types = <<>>

InitWith(tpl, plan, who, out) ==
    /\ fs = [p \in Paths |-> IF p = "tpl" THEN File(tpl) ELSE NoFile]
    /\ pages = plan
    /\ caller = who
    /\ template_path = "tpl"
    /\ dest = out
    /\ output_path = IF who = "generate_ppt" THEN "tmp" ELSE out
    /\ pc = IF who = "generate_ppt" THEN "g_start" ELSE "start"
    /\ err = NoErr
    /\ run = 0
    /\ InitLocals
    /\ entry = fs
    /\ calls = <<>>
    /\ builds = <<>>
    /\ edited = NoEdit
    /\ BinderIdle
    /\ RestorerIdle
    /\ WebIdle

\* every set of slide parts against every plan, for each caller
InitPlans ==
    \E S \in SUBSET (1..MaxSlideNum), plan \in Plans,
       c \in {<<"build_from_json", "out">>, <<"build_from_json", "tpl">>,
              <<"generate_ppt", "out">>} :
        InitWith(Template(S, BaseTags, BaseRelsOf(S), BasePresExtra, TRUE),
                 plan, c[1], c[2])

\* every set of tag parts against every relationship list of slide 1
InitTags ==
    \E T \in SUBSET (1..MaxTagNum), rels \in RelLists, plan \in ShortPlans :
        InitWith(Template({1, 2}, T,
                          (1 :> rels) @@ (2 :> <<TagRel(1, FALSE, 1)>>),
                          BasePresExtra, TRUE),
                 plan, "build_from_json", "out")

\* every choice of Ids of the presentation's relationships
InitIds ==
    \E extra \in PresExtras, hasLst \in BOOLEAN, plan \in ShortPlans :
        InitWith(Template({1, 2}, BaseTags, BaseRelsOf({1, 2}), extra, hasLst),
                 plan, "build_from_json", "out")

\* a notes slide of slide k and its relationship part: ppt/notesSlides/
\* notesSlide{k}.xml and ppt/notesSlides/_rels/notesSlide{k}.xml.rels, whose
\* Target="../slides/slide{k}.xml" names the slide the notes belong to
NotesParts(K) ==
    [n \in {<<"notes", k>> : k \in K} \cup {<<"notesRels", k>> : k \in K} |->
        IF n[1] = "notes" THEN Blob(n)
        ELSE <<Rel(RId(1), SlideType, FALSE, <<"slide", n[2]>>)>>]

\* the presentation's relationships, those of the slides in A written with
\* the absolute Target="/ppt/slides/slide{k}.xml"
AbsoluteSlideRels(root, A) ==
    [p \in 1..Len(root) |->
        IF root[p].Type = SlideType /\ root[p].Target.part[2] \in A
        THEN [root[p] EXCEPT !.Target.abs = TRUE]
        ELSE root[p]]

\* templates with notes slides and with absolute slide targets
InitLinks ==
    \E A \in SUBSET {1, 2}, K \in SUBSET {1, 2}, plan \in ShortPlans :
        InitWith(NotesParts(K)
                 @@ [Template({1, 2}, BaseTags, BaseRelsOf({1, 2}),
                              BasePresExtra, TRUE)
                       EXCEPT ![<<"presRels", 0>>] = AbsoluteSlideRels(@, A)],
                 plan, "build_from_json", "out")

Init == InitPlans \/ InitTags \/ InitIds \/ InitLinks


\* ------------------------------------------------------------------ actions
\* mutant of InitialTagNum: the counter is a module-level global that goes on
\* from the tag numbers the previous call handed out
InitialTagNum_Global(fb) ==
    LET tag_nums == {n[2] : n \in {m \in DOMAIN fb : m[1] = "tag"}}
        handed == IF builds = <<>> THEN {}
                  ELSE {n[2] : n \in {m \in DOMAIN builds[Len(builds)] : m[1] = "tag"}}
    IN  IF tag_nums \cup handed # {} THEN MaxOf(tag_nums \cup handed) ELSE 0

\* tag_nums / next_tag_num of build_from_json
InitialTagNum(fb) ==
    LET tag_nums == {n[2] : n \in {m \in DOMAIN fb : m[1] = "tag"}}
    IN  IF tag_nums # {} THEN MaxOf(tag_nums) ELSE 0

\* An exception leaves the function; under generate_ppt the finally clause
\* unlinks the temporary file once it exists.
Raise(e) ==
    /\ err' = e
    /\ pc' = "failed"
    /\ fs' = IF caller = "generate_ppt" /\ fs["tmp"].exists
             THEN [fs EXCEPT !["tmp"] = NoFile]
             ELSE fs

\* generate_ppt: read the plan, refuse an empty one, create the temporary file
GenStart ==
    /\ pc = "g_start"
    /\ IF pages = <<>>
       THEN Raise(Error("empty", 0, 0))
       ELSE /\ fs' = [fs EXCEPT !["tmp"] = File(EmptyTable)]
            /\ pc' = "start"
            /\ err' = err
    /\ UNCHANGED <<elsewhere, inputs, run, locals, history>>

\* build_from_json: read the plan, refuse an empty one
ReadPlan ==
    /\ pc = "start"
    /\ run' = run + 1
    /\ calls' = Append(calls, fs)
    /\ IF pages = <<>>
       THEN Raise(Error("empty", 0, 0))
       ELSE /\ pc' = "load"
            /\ UNCHANGED <<fs, err>>
    /\ UNCHANGED <<elsewhere, inputs, locals, entry, builds, edited>>

\* read every part of the template into file_bytes, find the slides and their
\* relationship files, refuse a template without slides, find the tag numbers
LoadTemplate ==
    /\ pc = "load"
    /\ file_bytes' = fs[template_path].parts
    /\ slide_map' = SlideMap(file_bytes')
    /\ slide_rel_map' = SlideRelMap(file_bytes')
    /\ slide_count' = Cardinality(DOMAIN slide_map')
    /\ IF slide_count' = 0
       THEN /\ Raise(Error("no_slides", 0, 0))
            /\ UNCHANGED <<next_tag_num, extra_tag_parts, extra_tag_files,
                           selected_slides, idx>>
       ELSE /\ next_tag_num' = InitialTagNum(file_bytes')
            /\ extra_tag_parts' = <<>>
            /\ extra_tag_files' = EmptyTable
            /\ selected_slides' = <<>>
            /\ idx' = 1
            /\ pc' = "select"
            /\ UNCHANGED <<fs, err>>
    /\ UNCHANGED <<elsewhere, inputs, run, pres_rels, new_rel_ids, pres_xml,
                   prepared_rel_bytes, content_types, history>>

\* one turn of  for idx, page in enumerate(pages, start=1)
SelectPage ==
    /\ pc = "select"
    /\ LET page == pages[idx]
           tmpl_num == page.template_page_num
       IN  IF ~page.has_num
           THEN /\ Raise(Error("missing_num", idx, 0))
                /\ UNCHANGED <<selected_slides, idx>>
           ELSE IF ~InSlideMap(tmpl_num, slide_map)
           THEN /\ Raise(Error("not_in_template", idx, tmpl_num))
                /\ UNCHANGED <<selected_slides, idx>>
           ELSE /\ selected_slides' = Append(selected_slides, tmpl_num)
                /\ idx' = idx + 1
                /\ pc' = IF idx = Len(pages) THEN "rels" ELSE "select"
                /\ UNCHANGED <<fs, err>>
    /\ UNCHANGED <<elsewhere, inputs, run, file_bytes, slide_map, slide_rel_map, slide_count,
                   next_tag_num, extra_tag_parts, extra_tag_files, pres_rels,
                   new_rel_ids, pres_xml, prepared_rel_bytes, content_types,
                   history>>

\* slide_total
slide_total == Len(selected_slides)

UpdatePresentationRels ==
    /\ pc = "rels"
    /\ LET r == _update_presentation_rels(file_bytes[<<"presRels", 0>>], slide_total)
       IN  /\ pres_rels' = r.root
           /\ new_rel_ids' = r.new_rel_ids
    /\ pc' = "pres_xml"
    /\ UNCHANGED <<elsewhere, fs, inputs, err, run, idx, file_bytes, slide_map, slide_rel_map,
                   slide_count, next_tag_num, extra_tag_parts, extra_tag_files,
                   selected_slides, pres_xml, prepared_rel_bytes, content_types,
                   history>>

UpdatePresentationXml ==
    /\ pc = "pres_xml"
    /\ pres_xml' = _update_presentation_xml(file_bytes[<<"pres", 0>>], new_rel_ids)
    /\ prepared_rel_bytes' = EmptyTable
    /\ idx' = 1
    /\ pc' = "clone"
    /\ UNCHANGED <<elsewhere, fs, inputs, err, run, file_bytes, slide_map, slide_rel_map,
                   slide_count, next_tag_num, extra_tag_parts, extra_tag_files,
                   selected_slides, pres_rels, new_rel_ids, content_types,
                   history>>

\* one turn of  for idx, (tmpl_num, _) in enumerate(selected_slides, start=1)
\* that fills prepared_rel_bytes
CloneTags ==
    /\ pc = "clone"
    /\ LET tmpl_num == selected_slides[idx]
       IN  IF tmpl_num \in DOMAIN slide_rel_map
           THEN LET st == clone_tags(slide_rel_map[tmpl_num],
                                     [out |-> <<>>,
                                      next_tag_num |-> next_tag_num,
                                      extra_tag_parts |-> extra_tag_parts,
                                      extra_tag_files |-> extra_tag_files],
                                     file_bytes)
                IN  /\ prepared_rel_bytes' = (idx :> st.out) @@ prepared_rel_bytes
                    /\ next_tag_num' = st.next_tag_num
                    /\ extra_tag_parts' = st.extra_tag_parts
                    /\ extra_tag_files' = st.extra_tag_files
           ELSE UNCHANGED <<prepared_rel_bytes, next_tag_num, extra_tag_parts,
                            extra_tag_files>>
    /\ idx' = idx + 1
    /\ pc' = IF idx = slide_total THEN "content_types" ELSE "clone"
    /\ UNCHANGED <<elsewhere, fs, inputs, err, run, file_bytes, slide_map, slide_rel_map,
                   slide_count, selected_slides, pres_rels, new_rel_ids, pres_xml,
                   content_types, history>>

UpdateContentTypes ==
    /\ pc = "content_types"
    /\ content_types' = _update_content_types(file_bytes[<<"ct", 0>>], slide_total,
                                              extra_tag_parts)
    /\ pc' = "open"
    /\ UNCHANGED <<elsewhere, fs, inputs, err, run, idx, file_bytes, slide_map, slide_rel_map,
                   slide_count, next_tag_num, extra_tag_parts, extra_tag_files,
                   selected_slides, pres_rels, new_rel_ids, pres_xml,
                   prepared_rel_bytes, history>>

\* mutant of OutputZipPath: the archive is opened on the wrong path variable
OutputZipPath_Template == template_path

\* the path of  zipfile.ZipFile(output_path, "w")
OutputZipPath == output_path

\* zipfile.ZipFile(output_path, "w"): the file is created, or truncated
OpenOutput ==
    /\ pc = "open"
    /\ fs' = [fs EXCEPT ![OutputZipPath] = File(EmptyTable)]
    /\ pc' = "write_static"
    /\ UNCHANGED <<elsewhere, inputs, err, run, locals, history>>

\* mutant of StaticParts: the writer's first loop does not skip the
\* template's slide parts
StaticParts_KeepSlides ==
    LET names == {n \in DOMAIN file_bytes : n[1] # "slideRels"}
    IN  [n \in names |->
            CASE n = <<"ct", 0>> -> content_types
              [] n = <<"presRels", 0>> -> pres_rels
              [] n = <<"pres", 0>> -> pres_xml
              [] OTHER -> file_bytes[n]]

\* the parts of file_bytes the first loop of the writer copies, the three
\* rewritten ones replaced
StaticParts ==
    LET names == {n \in DOMAIN file_bytes : n[1] \notin {"slide", "slideRels"}}
    IN  [n \in names |->
            CASE n = <<"ct", 0>> -> content_types
              [] n = <<"presRels", 0>> -> pres_rels
              [] n = <<"pres", 0>> -> pres_xml
              [] OTHER -> file_bytes[n]]

\* the slide and relationship parts the second loop writes
SlideParts ==
    [n \in {<<"slide", i>> : i \in 1..slide_total}
           \cup {<<"slideRels", i>> : i \in DOMAIN prepared_rel_bytes} |->
        IF n[1] = "slide" THEN slide_map[selected_slides[n[2]]]
        ELSE prepared_rel_bytes[n[2]]]

\* writestr: a later entry of the same name is the one a reader gets
WriteAll(path, parts) ==
    fs' = [fs EXCEPT ![path].parts = parts @@ @]

WriteStatic ==
    /\ pc = "write_static"
    /\ WriteAll(OutputZipPath, StaticParts)
    /\ pc' = "write_slides"
    /\ UNCHANGED <<elsewhere, inputs, err, run, locals, history>>

WriteSlides ==
    /\ pc = "write_slides"
    /\ WriteAll(OutputZipPath, SlideParts)
    /\ pc' = "write_tags"
    /\ UNCHANGED <<elsewhere, inputs, err, run, locals, history>>

\* the third loop, and the archive is closed
WriteTags ==
    /\ pc = "write_tags"
    /\ WriteAll(OutputZipPath, extra_tag_files)
    /\ builds' = Append(builds, fs'[output_path].parts)
    /\ pc' = IF caller = "generate_ppt" THEN "g_load" ELSE "done"
    /\ UNCHANGED <<elsewhere, inputs, err, run, locals, entry, calls, edited>>

\* generate_ppt: Presentation(temp_ppt) has one slide per p:sldId; a count that
\* differs from the plan's is refused
GenLoad ==
    /\ pc = "g_load"
    /\ IF Len(fs["tmp"].parts[<<"pres", 0>>].sldIdLst) # Len(pages)
       THEN Raise(Error("count", 0, 0))
       ELSE /\ pc' = "g_save"
            /\ UNCHANGED <<fs, err>>
    /\ UNCHANGED <<elsewhere, inputs, run, locals, history>>

\* generate_ppt: prs.save(output_path), then the finally clause.  What is saved
\* is the package loaded from temp_ppt; the binding of content into the slides
\* (_fill_slide) and _restore_connectors work inside slide parts, which are
\* opaque to the assembly modelled here.
GenSave ==
    /\ pc = "g_save"
    /\ fs' = [fs EXCEPT ![dest] = File(fs["tmp"].parts), !["tmp"] = NoFile]
    /\ pc' = "g_done"
    /\ UNCHANGED <<elsewhere, inputs, err, run, locals, history>>

\* build_from_json is called again with the same arguments; the frame of the
\* first call is gone
Rerun ==
    /\ pc = "done"
    /\ run = 1
    /\ pc' = "start"
    /\ idx' = 0
    /\ file_bytes' = EmptyTable
    /\ slide_map' = EmptyTable
    /\ slide_rel_map' = EmptyTable
    /\ slide_count' = 0
    /\ next_tag_num' = 0
    /\ extra_tag_parts' = <<>>
    /\ extra_tag_files' = EmptyTable
    /\ selected_slides' = <<>>
    /\ pres_rels' = <<>>
    /\ new_rel_ids' = <<>>
    /\ pres_xml' = [hasLst |-> FALSE, sldIdLst |-> <<>>]
    /\ prepared_rel_bytes' = EmptyTable
    /\ content_types' = <<>>
    /\ entry' = fs
    /\ UNCHANGED <<elsewhere, fs, inputs, err, run, calls, builds, edited>>

\* the parts of the output reached through the relationships of output slide i
Reached(parts, i) ==
    IF <<"slideRels", i>> \in DOMAIN parts
    THEN {Canonical(r.Target) : r \in Range(parts[<<"slideRels", i>>])}
         \cap DOMAIN parts
    ELSE {}

\* the parts of output slide i
PartsOfSlide(parts, i) ==
    ({<<"slide", i>>, <<"slideRels", i>>} \cap DOMAIN parts) \cup Reached(parts, i)

\* the parts of output slide i that the assembler cloned for the output
ClonedParts(parts, i) ==
    ({<<"slide", i>>, <<"slideRels", i>>} \cap DOMAIN parts)
    \cup (Reached(parts, i) \cap DOMAIN extra_tag_files)

EditPart(name, data) ==
    IF name[1] = "slideRels" THEN Append(data, ImageRel(Len(data) + 1))
    ELSE [data EXCEPT !.rev = 1]

\* somebody edits, in the finished output, one cloned part of output slide i
Mutate ==
    /\ pc = "done"
    /\ \E i \in 1..slide_total :
        \E n \in ClonedParts(fs[output_path].parts, i) :
            /\ fs' = [fs EXCEPT ![output_path].parts[n] = EditPart(n, @)]
            /\ edited' = [slide |-> i, part |-> n]
    /\ pc' = "mutated"
    /\ UNCHANGED <<elsewhere, inputs, err, run, locals, entry, calls, builds>>

Next ==
    \/ GenStart
    \/ ReadPlan
    \/ LoadTemplate
    \/ SelectPage
    \/ UpdatePresentationRels
    \/ UpdatePresentationXml
    \/ CloneTags
    \/ UpdateContentTypes
    \/ OpenOutput
    \/ WriteStatic
    \/ WriteSlides
    \/ WriteTags
    \/ GenLoad
    \/ GenSave
    \/ Rerun
    \/ Mutate

Spec == Init /\ [][Next]_vars


\* =================================================================== claims
\* build_from_json has returned and nobody touched its output yet
BuildReturned == pc \in {"done", "g_load"}

\* the package build_from_json wrote
Built == fs[output_path].parts

\* the template as it was when build_from_json was called
TemplateAtCall == calls[Len(calls)][template_path].parts

NamesOfKind(parts, kind) == {n \in DOMAIN parts : n[1] = kind}

\* C1: for a valid non-empty plan of N entries the output's slide parts are
\* exactly slide1..slideN, output slide i holds the content of the template
\* slide that plan entry i names, and no slide relationship part is left over
\* from the template.
C1_SlidesInPlanOrder ==
    BuildReturned =>
        /\ NamesOfKind(Built, "slide") = {<<"slide", i>> : i \in 1..Len(pages)}
        /\ \A i \in 1..Len(pages) :
              Built[<<"slide", i>>]
                  = TemplateAtCall[<<"slide", pages[i].template_page_num>>]
        /\ NamesOfKind(Built, "slideRels")
              \subseteq {<<"slideRels", i>> : i \in 1..Len(pages)}
        /\ \A i \in 1..Len(pages) :
              <<"slideRels", i>> \in DOMAIN Built
                  <=> <<"slideRels", pages[i].template_page_num>>
                          \in DOMAIN TemplateAtCall

\* a three-slide template assembled as (slide 3, slide 1): reordered, fewer
\* slides than the template, slide 2 dropped
C1_Witness ==
    /\ pc = "done"
    /\ Cardinality(NamesOfKind(TemplateAtCall, "slide")) = 3
    /\ Len(pages) = 2
    /\ pages[1].template_page_num = 3
    /\ pages[2].template_page_num = 1
    /\ Built[<<"slide", 1>>] = Blob(<<"slide", 3>>)

\* C2: no two Relationship elements of the output's
\* ppt/_rels/presentation.xml.rels carry the same Id.
C2_PresentationRelIdsUnique ==
    BuildReturned =>
        LET rels == Built[<<"presRels", 0>>]
        IN  \A p, q \in 1..Len(rels) :
                (p # q /\ rels[p].Id # <<>>) => rels[p].Id # rels[q].Id

\* a plan that repeats a slide, on a template whose highest Id, rId9, belongs
\* to a relationship that is kept
C2_Witness ==
    /\ pc = "done"
    /\ Len(pages) = 2
    /\ pages[1] = pages[2]
    /\ \E p \in 1..Len(Built[<<"presRels", 0>>]) :
          /\ Built[<<"presRels", 0>>][p].Id = RId(9)
          /\ ~TargetsSlide(Built[<<"presRels", 0>>][p])
    /\ new_rel_ids = <<RId(10), RId(11)>>

\* the part a relationship target names, by the package's rules (a relative
\* target is resolved against ppt/slides, an absolute one stands for itself)
Resolve(target) == target.part

\* the (slide, position) pairs of the tags relationships of the output
TagRelsOf(parts) ==
    {sp \in (1..MaxPlanLen) \X (1..2) :
        /\ <<"slideRels", sp[1]>> \in DOMAIN parts
        /\ sp[2] <= Len(parts[<<"slideRels", sp[1]>>])
        /\ parts[<<"slideRels", sp[1]>>][sp[2]].Type = TagsType}

\* C3: in every output, each tags relationship of a slide whose target exists
\* in the template points to a freshly cloned tag part: one whose name is no
\* part name of the template and that no other tags relationship of any
\* output slide targets.
C3_TagTargetsFreshAndDistinct ==
    BuildReturned =>
        \A sp \in TagRelsOf(Built) :
            LET i == sp[1]
                was == TemplateAtCall[<<"slideRels", selected_slides[i]>>][sp[2]]
                now == Built[<<"slideRels", i>>][sp[2]]
            IN  Resolve(was.Target) \in DOMAIN TemplateAtCall =>
                    /\ Resolve(now.Target) \notin DOMAIN TemplateAtCall
                    /\ \A other \in TagRelsOf(Built) \ {sp} :
                          Resolve(Built[<<"slideRels", other[1]>>][other[2]].Target)
                              # Resolve(now.Target)


\* the package as build_from_json left it
LastBuild == builds[Len(builds)]

\* C4: when a plan uses one template slide at two positions i # j, editing a
\* cloned part of output slide i (its slide XML, its relationship file, a part
\* the assembler cloned that its relationships reach) leaves every part of
\* output slide j as it was.
C4_ClonesIndependent ==
    pc = "mutated" =>
        \A j \in 1..slide_total :
            (j # edited.slide /\ selected_slides[j] = selected_slides[edited.slide])
                => \A n \in PartsOfSlide(LastBuild, j) : Built[n] = LastBuild[n]

\* the positions of build_from_json from its first statement to the opening of
\* the output archive
BeforeOpen == {"load", "select", "rels", "pres_xml", "clone", "content_types", "open"}
\* the positions from the opening of the output archive on
FromOpen == {"write_static", "write_slides", "write_tags", "done", "g_load",
             "g_save", "g_done", "mutated"}

\* every template part is loaded and every plan entry is validated
PlanValidated ==
    /\ pages # <<>>
    /\ file_bytes = TemplateAtCall
    /\ slide_count > 0
    /\ Len(selected_slides) = Len(pages)
    /\ \A i \in 1..Len(pages) :
          /\ pages[i].has_num
          /\ <<"slide", pages[i].template_page_num>> \in DOMAIN file_bytes

\* C5: a validation failure is raised before the output archive is opened:
\* nothing is written to output_path before all template parts are loaded and
\* all plan entries validated, and a failed run leaves the file system as it
\* found it (no output file).
C5_NoWriteBeforeValidation ==
    /\ pc = "failed" => fs = entry
    /\ (pc \in BeforeOpen /\ calls # <<>>)
          => fs[output_path] = calls[Len(calls)][output_path]
    /\ pc \in FromOpen => PlanValidated

\* the second entry of a plan names a slide the template lacks: the run has
\* failed after the first entry was accepted, and there is no output file
C5_Witness ==
    /\ pc = "failed"
    /\ err.kind = "not_in_template"
    /\ err.idx = 2
    /\ Len(selected_slides) = 1
    /\ ~fs[dest].exists
    /\ ~fs["tmp"].exists

\* C6: a plan entry is rejected, with an error naming its 1-based index,
\* exactly when its template_page_num lies outside 1..slide_count.
C6_RejectsExactlyOutOfRange ==
    /\ (pc = "failed" /\ err.kind = "not_in_template")
          => /\ err.tmpl_num \notin 1..slide_count
             /\ pages[err.idx].template_page_num = err.tmpl_num
    /\ \A i \in 1..Len(selected_slides) : selected_slides[i] \in 1..slide_count

Count(seq, x) == Cardinality({p \in 1..Len(seq) : seq[p] = x})

\* the tag parts of the output that the template does not have
NewTagParts == NamesOfKind(Built, "tag") \ DOMAIN TemplateAtCall

\* C7: the slide Overrides of the output's [Content_Types].xml are exactly
\* /ppt/slides/slide1.xml .. slideN.xml, each once; each newly cloned tag part
\* has exactly one Override; every other Override of the template is kept; so
\* every slide part and every cloned tag part has an Override and every slide
\* Override names a part of the output.
C7_ContentTypeOverrides ==
    BuildReturned =>
        LET ct == Built[<<"ct", 0>>]
            old == TemplateAtCall[<<"ct", 0>>]
            Other(part) == part[1] # "slide" /\ part \notin NewTagParts
        IN  /\ {n \in Range(ct) : n[1] = "slide"}
                  = {<<"slide", i>> : i \in 1..Len(pages)}
            /\ \A i \in 1..Len(pages) : Count(ct, <<"slide", i>>) = 1
            /\ \A n \in NewTagParts : Count(ct, n) = 1
            /\ SelectSeq(ct, Other) = SelectSeq(old, NotSlideOverride)
            /\ NamesOfKind(Built, "slide") \cup NewTagParts \subseteq Range(ct)
            /\ {n \in Range(ct) : n[1] = "slide"} \subseteq DOMAIN Built

\* fewer plan entries than template slides, one slide repeated, tags cloned
C7_Witness ==
    /\ pc = "done"
    /\ Len(pages) = 2
    /\ pages[1] = pages[2]
    /\ Cardinality(NamesOfKind(TemplateAtCall, "slide")) = 3
    /\ Cardinality(NewTagParts) = 2

SlideCountOf(parts) == Cardinality(NamesOfKind(parts, "slide"))

\* C8: two runs of build_from_json on the same template and plan give the
\* same slide count and the same set of content-type Override PartNames.
C8_Deterministic ==
    (Len(builds) = 2 /\ calls[1][template_path] = calls[2][template_path])
        => /\ SlideCountOf(builds[1]) = SlideCountOf(builds[2])
           /\ Range(builds[1][<<"ct", 0>>]) = Range(builds[2][<<"ct", 0>>])

\* the second run is complete, on the template the first run had, and both
\* cloned tag parts
C8_Witness ==
    /\ Len(builds) = 2
    /\ pc = "done"
    /\ calls[1][template_path] = calls[2][template_path]
    /\ extra_tag_parts # <<>>
    /\ fs[output_path].parts = builds[1]

\* the positions inside a call of build_from_json and right after it
InCall == BeforeOpen \cup {"write_static", "write_slides", "write_tags",
                           "done", "g_load", "failed"}

\* C9 as stated: for any template_path, plan and output_path, failed or not,
\* the template archive and the in-memory table of its parts are as before
\* the call.
C9_TemplateNeverChanged ==
    (pc \in InCall /\ calls # <<>>) =>
        /\ fs[template_path] = calls[Len(calls)][template_path]
        /\ file_bytes # EmptyTable => file_bytes = TemplateAtCall

\* C9 as amended: the in-memory table is never changed; the template archive
\* is unchanged whenever output_path is another file than template_path, and
\* also when the call fails.
C9_TemplateUnchangedUnlessOutput ==
    (pc \in InCall /\ calls # <<>>) =>
        /\ (output_path # template_path \/ pc = "failed")
              => fs[template_path] = calls[Len(calls)][template_path]
        /\ file_bytes # EmptyTable => file_bytes = TemplateAtCall

\* a completed call whose output is another file than the template, the
\* output differing from the template
C9_Witness ==
    /\ pc = "done"
    /\ output_path # template_path
    /\ fs[output_path].exists
    /\ fs[output_path] # fs[template_path]
    /\ extra_tag_parts # <<>>

\* C10: the slide-ID list of the output has N entries; entry i has id 255 + i
\* and its r:id is the Id of the presentation relationship whose Target is
\* slides/slide{i}.xml.
C10_SlideIdList ==
    BuildReturned =>
        LET lst == Built[<<"pres", 0>>].sldIdLst
            rels == Built[<<"presRels", 0>>]
            ToSlide(i) == [abs |-> FALSE, part |-> <<"slide", i>>]
        IN  /\ Len(lst) = Len(pages)
            /\ \A i \in 1..Len(lst) :
                  /\ lst[i].id = 255 + i
                  /\ \E p \in 1..Len(rels) : rels[p].Target = ToSlide(i)
                  /\ \A p \in 1..Len(rels) :
                        rels[p].Target = ToSlide(i) => rels[p].Id = lst[i].rid

\* a template without p:sldIdLst, assembled into two slides
C10_Witness ==
    /\ pc = "done"
    /\ ~TemplateAtCall[<<"pres", 0>>].hasLst
    /\ Built[<<"pres", 0>>].sldIdLst
          = <<[id |-> 256, rid |-> RId(4)], [id |-> 257, rid |-> RId(5)]>>


\* ==================================================== the shape content binder
(***************************************************************************)
(* src/generatePPT.py: _fill_slide and its helpers.                        *)
(*                                                                         *)
(* A string is a sequence of characters, so that "in", startswith,         *)
(* endswith, strip, split and replace are computed.  A character of the    *)
(* source is written here by its pinyin:                                   *)
(*   页 ye   图 tu   文 wen  字 zi   内 nei  容 rong  区 qu   框 kuang       *)
(*   栏 lan  幕 mu   标 biao 题 ti   名 ming 称 cheng 课 ke   目 mu4         *)
(*   录 lu   片 pian 本 ben  背 bei  景 jing 矩 ju    形 xing 圆 yuan       *)
(*   角 jiao 椭 tuo  状 zhuang 遮 zhe 罩 zhao 底 di   色 se   元 yuan2      *)
(*   素 su   组 zu   合 he   封 feng 面 mian 学 xue   院 yuan4 ，dou        *)
(* and an ASCII character by itself.                                       *)
(***************************************************************************)

\* ------------------------------------------------------------------ bounds
\* most top-level shapes of a generated slide
MaxShapes == 3
\* most characters of a generated text value
MaxChars == 3

\* --------------------------------------------------------------- constants
\* src/generatePPT.py:26   EMU_PER_PT = 12700
EMU_PER_PT == 12700
\* src/generatePPT.py:27   H_PADDING = 20000
H_PADDING == 20000
\* src/generatePPT.py:468  font_size = 28  (when no run carries a size)
DefaultFontPt == 28
\* src/generatePPT.py:73   placeholder_format.type == 18  (a picture slot)
PicturePlaceholderType == 18

\* src/generatePPT.py:19
SUFFIXES == << <<"qu">>, <<"kuang">>, <<"lan">> >>
\* src/generatePPT.py:20   文字内容, 字幕, 标题名称, 内容内容
PLACEHOLDER_KEYWORDS ==
    << <<"wen", "zi", "nei", "rong">>, <<"zi", "mu">>,
       <<"biao", "ti", "ming", "cheng">>, <<"nei", "rong", "nei", "rong">> >>
\* src/generatePPT.py:21-23   the default subtitle of the template, abridged
\* to its first clause: 字幕18pt，
SUBTITLE_TEXTS == << <<"zi", "mu", "1", "8", "p", "t", "dou">> >>
\* src/generatePPT.py:24   背景 矩形 圆角 椭圆 形状 图形 遮罩 底色
IGNORE_KEYWORDS ==
    << <<"bei", "jing">>, <<"ju", "xing">>, <<"yuan", "jiao">>,
       <<"tuo", "yuan">>, <<"xing", "zhuang">>, <<"tu", "xing">>,
       <<"zhe", "zhao">>, <<"di", "se">> >>
\* src/generatePPT.py:25   标题 名称 课题 栏目
EXPANDABLE_KEYWORDS ==
    << <<"biao", "ti">>, <<"ming", "cheng">>, <<"ke", "ti">>,
       <<"lan", "mu4">> >>

\* -------------------------------------------------- strings of characters
\* s[i..j], empty when j < i
Slice(s, i, j) == IF j < i THEN <<>> ELSE SubSeq(s, i, j)

\* sub occurs in s at position i
OccursAt(s, sub, i) ==
    /\ i + Len(sub) - 1 <= Len(s)
    /\ \A k \in 1..Len(sub) : s[i + k - 1] = sub[k]

\* sub in s
In(sub, s) == \E i \in 1..(Len(s) + 1) : OccursAt(s, sub, i)

\* s.startswith(sub), s.endswith(sub)
startswith(s, sub) == OccursAt(s, sub, 1)
endswith(s, sub) ==
    Len(sub) <= Len(s) /\ OccursAt(s, sub, Len(s) - Len(sub) + 1)

\* any(keyword in s for keyword in keywords)
AnyIn(keywords, s) == \E k \in 1..Len(keywords) : In(keywords[k], s)

\* s.strip(): the blanks at both ends go
strip(s) ==
    LET keep == {i \in 1..Len(s) : s[i] # " "}
    IN  IF keep = {} THEN <<>>
        ELSE Slice(s, CHOOSE i \in keep : \A j \in keep : i <= j,
                      CHOOSE i \in keep : \A j \in keep : i >= j)

\* s.replace(" ", "")
NoSpaces(s) == SelectSeq(s, LAMBDA c : c # " ")

\* the position of the first c in s, 0 when there is none
FirstIndex(s, c) ==
    IF \E i \in 1..Len(s) : s[i] = c
    THEN CHOOSE i \in 1..Len(s) : s[i] = c /\ \A j \in 1..(i - 1) : s[j] # c
    ELSE 0

\* s.split(c): the pieces between the occurrences of c, empty ones included
RECURSIVE split(_, _)
split(s, c) ==
    LET i == FirstIndex(s, c)
    IN  IF i = 0 THEN <<s>>
        ELSE <<Slice(s, 1, i - 1)>> \o split(Slice(s, i + 1, Len(s)), c)

\* the concatenation of a sequence of sequences
RECURSIVE Flatten(_)
Flatten(ss) == IF ss = <<>> THEN <<>> ELSE Head(ss) \o Flatten(Tail(ss))

\* the elements of a sequence without repetition, first occurrences kept
RECURSIVE Dedup(_)
Dedup(s) ==
    IF s = <<>> THEN <<>>
    ELSE LET init == Dedup(Slice(s, 1, Len(s) - 1))
             last == s[Len(s)]
         IN  IF \E i \in 1..Len(init) : init[i] = last THEN init
             ELSE Append(init, last)

\* ------------------------------------------------------------------ shapes
(***************************************************************************)
(* The slide is the sequence of its shapes in document order (a group      *)
(* before its members).  parent is the position of the enclosing group, 0  *)
(* at top level.  kind is what python-pptx reports:                        *)
(*   "text"     has_text_frame                                             *)
(*   "picture"  shape_type == MSO_SHAPE_TYPE.PICTURE                       *)
(*   "group"    shape_type == MSO_SHAPE_TYPE.GROUP                         *)
(*   "other"    a connector, a graphic frame                               *)
(* ph is placeholder_format.type, 0 for a shape that is no placeholder.    *)
(* paragraphs is the text frame: a paragraph is its sequence of runs, a    *)
(* run is [text, size], size in hundredths of a point as in the sz         *)
(* attribute, 0 when the run carries none.  onslide is FALSE once          *)
(* _safe_remove_shape took the element out of the tree; image is the path  *)
(* add_picture was given, for a picture that _replace_picture added.       *)
(***************************************************************************)
Run(text, size) == [text |-> text, size |-> size]

Shape(name, parent, kind) ==
    [name |-> name, parent |-> parent, kind |-> kind, ph |-> 0,
     paragraphs |-> <<>>, left |-> 0, top |-> 0, width |-> 0, height |-> 0,
     onslide |-> TRUE, added |-> FALSE, image |-> <<>>]

TextShape(name, parent, paragraphs) ==
    [Shape(name, parent, "text") EXCEPT !.paragraphs = paragraphs]

At(shape, l, t, w, h) ==
    [shape EXCEPT !.left = l, !.top = t, !.width = w, !.height = h]

has_text_frame(shape) == shape.kind = "text"

\* the shapes the template gave the slide: what list(...) saw at line 290
Template_Shapes(shapes) == {i \in 1..Len(shapes) : ~shapes[i].added}

\* the position of shape i among the members of its parent: enumerate(shapes, 1)
SiblingIndex(shapes, i) ==
    Cardinality({j \in 1..i : shapes[j].parent = shapes[i].parent
                              /\ ~shapes[j].added})

\* f"元素{idx}"
SyntheticName(n) == <<"yuan2", "su">> \o FormatInt(n)

\* name = (shape.name or "").strip() or f"元素{idx}"
PathName(shapes, i) ==
    IF strip(shapes[i].name) # <<>> THEN strip(shapes[i].name)
    ELSE SyntheticName(SiblingIndex(shapes, i))

\* path = (*parent_path, name)
RECURSIVE PathOf(_, _)
PathOf(shapes, i) ==
    (IF shapes[i].parent = 0 THEN <<>> ELSE PathOf(shapes, shapes[i].parent))
    \o <<PathName(shapes, i)>>

\* the (shape, path) pairs in the order the generator yields them
_iter_shapes_with_path(shapes) ==
    [n \in 1..Cardinality(Template_Shapes(shapes)) |->
        [shape |-> n, path |-> PathOf(shapes, n)]]

\* the leaves in document order
_iter_shapes(shapes) ==
    SelectSeq([n \in 1..Cardinality(Template_Shapes(shapes)) |-> n],
              LAMBDA n : shapes[n].kind # "group")

\* ------------------------------------------------------------ _detect_prefix
\* the absent prefix: None
NoPrefix == <<>>

\* src/generatePPT.py:100-104
_extract_prefix(name) ==
    IF FirstIndex(name, "_") = 0 THEN NoPrefix
    ELSE LET token == Slice(name, 1, FirstIndex(name, "_") - 1)
         IN  IF In(<<"ye">>, token) THEN token ELSE NoPrefix

\* the tokens of every segment of every path, in the order counter meets them
PrefixTokens(shapes) ==
    LET paths == _iter_shapes_with_path(shapes)
        segments == Flatten([n \in 1..Len(paths) |-> paths[n].path])
        tokens == [n \in 1..Len(segments) |-> _extract_prefix(segments[n])]
    IN  SelectSeq(tokens, LAMBDA t : t # NoPrefix)

\* counter[prefix]
CountOf(tokens, t) == Cardinality({n \in 1..Len(tokens) : tokens[n] = t})

\* max(counter.items(), key=lambda item: item[1])[0]: of the keys with the
\* highest count, the one the dict holds first
FirstMax(tokens) ==
    LET keys == Dedup(tokens)
        best == {k \in 1..Len(keys) :
                    \A j \in 1..Len(keys) :
                        CountOf(tokens, keys[j]) <= CountOf(tokens, keys[k])}
    IN  keys[CHOOSE k \in best : \A j \in best : k <= j]

\* src/generatePPT.py:88-97
_detect_prefix(shapes) ==
    LET tokens == PrefixTokens(shapes)
    IN  IF tokens = <<>> THEN NoPrefix ELSE FirstMax(tokens)

\* ------------------------------------------------------------- shape tests
\* 图片区, 图片, 文本框, 内容, 字幕
PictureArea == <<"tu", "pian", "qu">>
PictureWord == <<"tu", "pian">>
TextBoxWord == <<"wen", "ben", "kuang">>
ContentWord == <<"nei", "rong">>
SubtitleWord == <<"zi", "mu">>
LF == "LF"

\* paragraph.text: the texts of the runs, joined
ParagraphText(paragraph) ==
    Flatten([n \in 1..Len(paragraph) |-> paragraph[n].text])

\* "\n".join(lines)
RECURSIVE Join(_)
Join(lines) ==
    IF lines = <<>> THEN <<>>
    ELSE IF Len(lines) = 1 THEN lines[1]
    ELSE lines[1] \o <<LF>> \o Join(Tail(lines))

\* text_frame.text
FrameText(shape) ==
    Join([n \in 1..Len(shape.paragraphs) |->
            ParagraphText(shape.paragraphs[n])])

\* src/generatePPT.py:62-74
_is_picture_shape(shape) ==
    IF In(PictureArea, shape.name) \/ startswith(shape.name, PictureWord)
    THEN TRUE
    ELSE IF shape.kind = "picture" THEN TRUE
    ELSE IF shape.ph # 0 THEN shape.ph = PicturePlaceholderType
    ELSE FALSE

\* src/generatePPT.py:77-85
_is_placeholder_shape(shape) ==
    IF ~has_text_frame(shape) THEN FALSE
    ELSE IF startswith(strip(shape.name), TextBoxWord) THEN TRUE
    ELSE AnyIn(PLACEHOLDER_KEYWORDS, strip(FrameText(shape)))

\* ----------------------------------------------------------- _normalize_path
\* src/generatePPT.py:126-135, the page prefix left on the segment
_clean_segment_KeepPrefix(segment, page_prefix) ==
    IF AnyIn(IGNORE_KEYWORDS, strip(segment)) THEN <<>> ELSE strip(segment)

\* src/generatePPT.py:126-135
_clean_segment(segment, page_prefix) ==
    LET seg == strip(segment)
        cut == IF page_prefix # NoPrefix /\ startswith(seg, page_prefix \o <<"_">>)
               THEN Slice(seg, Len(page_prefix) + 2, Len(seg))
               ELSE seg
    IN  IF AnyIn(IGNORE_KEYWORDS, cut) THEN <<>> ELSE cut

\* the cleaned segments of path[start..], the empty ones dropped
CleanFrom(path, start, page_prefix) ==
    SelectSeq([n \in 1..(Len(path) - start + 1) |->
                  _clean_segment(path[start + n - 1], page_prefix)],
              LAMBDA seg : seg # <<>>)

\* src/generatePPT.py:107-123, the segments before the prefix kept
_normalize_path_FromStart(path, page_prefix) ==
    CleanFrom(path, 1, page_prefix)

\* src/generatePPT.py:107-123
_normalize_path(path, page_prefix) ==
    IF page_prefix # NoPrefix
    THEN LET hits == {n \in 1..Len(path) : In(page_prefix, path[n])}
         IN  IF hits = {} THEN <<>>
             ELSE CleanFrom(path, CHOOSE n \in hits : \A m \in hits : n <= m,
                            page_prefix)
    ELSE CleanFrom(path, 1, page_prefix)

\* ----------------------------------------------------------- the content tree
(***************************************************************************)
(* page_content is the sequence of the items of the dict, in its order.    *)
(* An item is a leaf (value, a string) or a dict of leaves (items).        *)
(***************************************************************************)
Leaf(key, value) ==
    [key |-> key, isdict |-> FALSE, value |-> value, items |-> <<>>]
Dict(key, items) ==
    [key |-> key, isdict |-> TRUE, value |-> <<>>, items |-> items]

\* src/generatePPT.py:138-149: the (path, value) pairs of the leaves
_flatten_content(content) ==
    Flatten([n \in 1..Len(content) |->
        IF content[n].isdict
        THEN [m \in 1..Len(content[n].items) |->
                [path |-> <<content[n].key, content[n].items[m].key>>,
                 value |-> content[n].items[m].value]]
        ELSE <<[path |-> <<content[n].key>>, value |-> content[n].value]>>])

\* key in content_map
InContentMap(content, path) ==
    \E n \in 1..Len(_flatten_content(content)) :
        _flatten_content(content)[n].path = path

\* content_map[key]
ContentAt(content, path) ==
    LET flat == _flatten_content(content)
    IN  flat[CHOOSE n \in 1..Len(flat) : flat[n].path = path].value

\* ------------------------------------------------------------------ aliases
\* alias[: -len(suf)].strip() for every suffix the alias ends with
Trimmed(alias) ==
    {strip(Slice(alias, 1, Len(alias) - Len(SUFFIXES[k]))) :
        k \in {j \in 1..Len(SUFFIXES) : endswith(alias, SUFFIXES[j])}}

\* the pieces of name between "_" and "-", stripped, the empty ones dropped
Pieces(name) ==
    LET parts == split(name, "_")
        pieces == Flatten([n \in 1..Len(parts) |-> split(parts[n], "-")])
    IN  {strip(pieces[n]) : n \in 1..Len(pieces)} \ {<<>>}

\* src/generatePPT.py:152-179
_shape_aliases(name) ==
    LET clean == strip(name)
        aliases == {clean, NoSpaces(clean)} \cup Pieces(clean)
    IN  IF clean = <<>> THEN {}
        ELSE (aliases \cup UNION {Trimmed(a) : a \in aliases}) \ {<<>>}

\* src/generatePPT.py:182-196: the candidates in their order, without repeats
_candidate_keys(key) ==
    LET bases == <<key, NoSpaces(key)>>
        trimmed == Flatten([n \in 1..Len(bases) |->
                      SelectSeq([k \in 1..Len(SUFFIXES) |->
                                   IF endswith(bases[n], SUFFIXES[k])
                                   THEN strip(Slice(bases[n], 1,
                                          Len(bases[n]) - Len(SUFFIXES[k])))
                                   ELSE <<>>],
                                LAMBDA c : c # <<>>)])
    IN  SelectSeq(Dedup(bases \o trimmed), LAMBDA c : c # <<>>)

\* the leaves that carry a name: what the loop at line 297 registers
Named(shapes) ==
    SelectSeq(_iter_shapes(shapes), LAMBDA n : shapes[n].name # <<>>)

\* shapes_by_exact.get(name): the first leaf of that name, 0 for None
shapes_by_exact(shapes, name) ==
    LET hits == {k \in 1..Len(Named(shapes)) :
                    shapes[Named(shapes)[k]].name = name}
    IN  IF hits = {} THEN 0
        ELSE Named(shapes)[CHOOSE k \in hits : \A j \in hits : k <= j]

\* shapes_by_name.get(alias): the first leaf with that alias, 0 for None
shapes_by_name(shapes, alias) ==
    LET hits == {k \in 1..Len(Named(shapes)) :
                    alias \in _shape_aliases(shapes[Named(shapes)[k]].name)}
    IN  IF hits = {} THEN 0
        ELSE Named(shapes)[CHOOSE k \in hits : \A j \in hits : k <= j]

\* the first candidate of the list that finds a shape, 0 when none does
RECURSIVE FirstByName(_, _)
FirstByName(shapes, candidates) ==
    IF candidates = <<>> THEN 0
    ELSE IF shapes_by_name(shapes, Head(candidates)) # 0
    THEN shapes_by_name(shapes, Head(candidates))
    ELSE FirstByName(shapes, Tail(candidates))

RECURSIVE FirstByExact(_, _)
FirstByExact(shapes, names) ==
    IF names = <<>> THEN 0
    ELSE IF shapes_by_exact(shapes, Head(names)) # 0
    THEN shapes_by_exact(shapes, Head(names))
    ELSE FirstByExact(shapes, Tail(names))

\* 文本框 N
TextBoxName(digits) == TextBoxWord \o <<" ">> \o digits

\* src/generatePPT.py:28-35   目录内容区1..4 and 字幕
DirectoryKey(d) == <<"mu4", "lu", "nei", "rong", "qu", d>>
MANUAL_NAME_MAP(key) ==
    IF key = DirectoryKey("1") THEN <<TextBoxName(<<"9">>)>>
    ELSE IF key = DirectoryKey("2") THEN <<TextBoxName(<<"1", "4">>)>>
    ELSE IF key = DirectoryKey("3") THEN <<TextBoxName(<<"1", "7">>)>>
    ELSE IF key = DirectoryKey("4") THEN <<TextBoxName(<<"2", "0">>)>>
    ELSE IF key = SubtitleWord
    THEN <<TextBoxName(<<"1", "0">>), TextBoxName(<<"3", "2">>),
           TextBoxName(<<"3", "6">>), TextBoxName(<<"5", "8">>),
           TextBoxName(<<"1", "2", "1">>)>>
    ELSE <<>>

\* ----------------------------------------------------------- _set_shape_text
\* para.runs[0].text = line, the other runs emptied; para.text = line
SetParagraph(paragraph, line) ==
    IF paragraph # <<>>
    THEN [n \in 1..Len(paragraph) |->
            [paragraph[n] EXCEPT !.text = IF n = 1 THEN line ELSE <<>>]]
    ELSE IF line = <<>> THEN <<>> ELSE <<Run(line, 0)>>

\* every run of the paragraph emptied
EmptyRuns(paragraph) ==
    [n \in 1..Len(paragraph) |-> [paragraph[n] EXCEPT !.text = <<>>]]

\* src/generatePPT.py:199-229
_set_shape_text(shape, text) ==
    LET lines == split(text, LF)
        old == IF shape.paragraphs = <<>> THEN << <<>> >> ELSE shape.paragraphs
        count == IF Len(lines) > Len(old) THEN Len(lines) ELSE Len(old)
    IN  IF ~has_text_frame(shape) THEN shape
        ELSE [shape EXCEPT !.paragraphs =
                [n \in 1..count |->
                    IF n <= Len(lines)
                    THEN SetParagraph(IF n <= Len(old) THEN old[n] ELSE <<>>,
                                      lines[n])
                    ELSE EmptyRuns(old[n])]]

\* shape.text_frame.clear(): one paragraph is left, without runs
ClearFrame(shape) == [shape EXCEPT !.paragraphs = << <<>> >>]

\* --------------------------------------------------------- _replace_picture
(***************************************************************************)
(* An image path is a string; image_files maps the paths that name a file  *)
(* to [decodable, w, h].  A path outside its domain names no file.         *)
(***************************************************************************)
ImageFile(decodable, w, h) == [decodable |-> decodable, w |-> w, h |-> h]

Warning(kind, what) == [kind |-> kind, what |-> what]

\* src/generatePPT.py:232-235
_safe_remove_shape(shapes, i) == [shapes EXCEPT ![i].onslide = FALSE]

\* src/generatePPT.py:258-272: the box of the picture inside the box of the
\* shape, the ratio of the image kept, centred
FittedPicture(shape, img, path) ==
    LET wide == img.w * shape.height > shape.width * img.h
        new_width == IF wide THEN shape.width
                     ELSE (shape.height * img.w) \div img.h
        new_height == IF wide THEN (shape.width * img.h) \div img.w
                      ELSE shape.height
    IN  [name |-> shape.name, parent |-> shape.parent, kind |-> "picture",
         ph |-> 0, paragraphs |-> <<>>,
         left |-> shape.left + (shape.width - new_width) \div 2,
         top |-> shape.top + (shape.height - new_height) \div 2,
         width |-> new_width, height |-> new_height,
         onslide |-> TRUE, added |-> TRUE, image |-> path]

\* src/generatePPT.py:238-282: the slide, the warnings and the exception
\* the call leaves behind; Image.open raises for a file it cannot decode
_replace_picture(shapes, i, image_path, files) ==
    IF image_path = <<>>
    THEN [slide |-> _safe_remove_shape(shapes, i), warned |-> <<>>,
          raised |-> "none"]
    ELSE IF image_path \notin DOMAIN files
    THEN [slide |-> _safe_remove_shape(shapes, i),
          warned |-> <<Warning("image", image_path)>>, raised |-> "none"]
    ELSE IF ~files[image_path].decodable
    THEN [slide |-> shapes, warned |-> <<>>,
          raised |-> "UnidentifiedImageError"]
    ELSE IF shapes[i].height = 0
    THEN [slide |-> shapes, warned |-> <<>>, raised |-> "ZeroDivisionError"]
    ELSE [slide |-> Append(_safe_remove_shape(shapes, i),
                           FittedPicture(shapes[i], files[image_path],
                                         image_path)),
          warned |-> <<>>, raised |-> "none"]

\* ------------------------------------------------------------------- layout
Min(a, b) == IF a < b THEN a ELSE b
Max(a, b) == IF a > b THEN a ELSE b

\* the maximum of a sequence of numbers, 0 for the empty one
RECURSIVE MaxSeq(_)
MaxSeq(ns) == IF ns = <<>> THEN 0 ELSE Max(Head(ns), MaxSeq(Tail(ns)))

\* 100 * (0.55 if ord(ch) < 128 else 1): every character written here by
\* one ASCII character is an ASCII character of the source
Weight100(ch) ==
    IF ch \in {" ", "_", "-", ".", "a", "b", "p", "n", "g", "t",
               "0", "1", "2", "3", "4", "5", "6", "7", "8", "9"}
    THEN 55 ELSE 100

RECURSIVE WidthFactor100(_)
WidthFactor100(line) ==
    IF line = <<>> THEN 0
    ELSE Weight100(Head(line)) + WidthFactor100(Tail(line))

\* the size of the first run that carries one, in hundredths of a point
FontSizeOf(paragraph) ==
    LET sized == {n \in 1..Len(paragraph) : paragraph[n].size # 0}
    IN  IF sized = {} THEN DefaultFontPt * 100
        ELSE paragraph[CHOOSE n \in sized : \A m \in sized : n <= m].size

\* width_factor * font_size * EMU_PER_PT, in EMU; exact for sizes of whole
\* points
LineWidth(paragraph) ==
    IF ParagraphText(paragraph) = <<>> THEN 0
    ELSE (WidthFactor100(ParagraphText(paragraph)) * FontSizeOf(paragraph)
          * (EMU_PER_PT \div 100)) \div 100

\* max_line of src/generatePPT.py:457-471
MaxLine(shape) ==
    MaxSeq([n \in 1..Len(shape.paragraphs) |-> LineWidth(shape.paragraphs[n])])

\* src/generatePPT.py:453-472
_estimate_text_width(shape) ==
    IF ~has_text_frame(shape) THEN 0 ELSE Max(MaxLine(shape), shape.width)

\* overlap = min(bottom, other_bottom) - max(top, other_top)
Overlap(a, b) ==
    Min(a.top + a.height, b.top + b.height) - Max(a.top, b.top)

\* src/generatePPT.py:436-450
_find_right_limit(shapes, i, sw) ==
    LET right == {shapes[j].left : j \in
                    {k \in Range(_iter_shapes(shapes)) :
                        /\ k # i
                        /\ Overlap(shapes[i], shapes[k]) > 0
                        /\ shapes[k].left > shapes[i].left}}
    IN  IF right = {} THEN sw
        ELSE Min(sw, CHOOSE l \in right : \A m \in right : l <= m)

\* src/generatePPT.py:418-433, the first candidate taken whatever its width
_find_background_shape_First(shapes, i) ==
    LET leaves == _iter_shapes(shapes)
        ok == {k \in 1..Len(leaves) :
                 /\ leaves[k] # i
                 /\ ~has_text_frame(shapes[leaves[k]])
                 /\ ~_is_picture_shape(shapes[leaves[k]])
                 /\ Overlap(shapes[i], shapes[leaves[k]]) > 0
                 /\ 10 * Overlap(shapes[i], shapes[leaves[k]])
                        >= 6 * Max(1, shapes[i].height)}
    IN  IF ok = {} THEN 0
        ELSE leaves[CHOOSE k \in ok : \A j \in ok : k <= j]

\* src/generatePPT.py:418-433: the widest candidate, the first of them; 0
\* for None
_find_background_shape(shapes, i) ==
    LET leaves == _iter_shapes(shapes)
        ok == {k \in 1..Len(leaves) :
                 /\ leaves[k] # i
                 /\ ~has_text_frame(shapes[leaves[k]])
                 /\ ~_is_picture_shape(shapes[leaves[k]])
                 /\ Overlap(shapes[i], shapes[leaves[k]]) > 0
                 /\ 10 * Overlap(shapes[i], shapes[leaves[k]])
                        >= 6 * Max(1, shapes[i].height)}
        widest == {k \in ok : \A j \in ok :
                      shapes[leaves[j]].width <= shapes[leaves[k]].width}
    IN  IF ok = {} THEN 0
        ELSE leaves[CHOOSE k \in widest : \A j \in widest : k <= j]

\* Pt(size.pt * max(ratio, 0.6)) for ratio = num / den
Shrunk(size, num, den) ==
    IF 10 * num < 6 * den THEN (size * 6) \div 10 ELSE (size * num) \div den

\* src/generatePPT.py:475-480
_shrink_font(shape, num, den) ==
    [shape EXCEPT !.paragraphs =
        [n \in 1..Len(shape.paragraphs) |->
            [r \in 1..Len(shape.paragraphs[n]) |->
                IF shape.paragraphs[n][r].size # 0
                THEN [shape.paragraphs[n][r] EXCEPT
                        !.size = Shrunk(@, num, den)]
                ELSE shape.paragraphs[n][r]]]]

\* limit - H_PADDING, then available, of src/generatePPT.py:400-401
Available(shapes, i, sw) ==
    Max(shapes[i].width,
        _find_right_limit(shapes, i, sw) - H_PADDING - shapes[i].left)

\* target_width of src/generatePPT.py:402
TargetWidth(shapes, i, sw) ==
    Min(Max(shapes[i].width, _estimate_text_width(shapes[i]) + H_PADDING),
        Available(shapes, i, sw))

\* the text shape widened, and its background with it
Grown(shapes, i, target_width) ==
    LET wider == [shapes EXCEPT ![i].width = target_width]
        bg == _find_background_shape(wider, i)
    IN  IF bg = 0 THEN wider
        ELSE [wider EXCEPT
                ![bg].width = Max(wider[bg].width, target_width + H_PADDING),
                ![bg].left = Min(wider[bg].left, wider[i].left)]

\* src/generatePPT.py:395-415, the font left alone
_adjust_text_shape_NoShrink(shapes, i, sw) ==
    IF _estimate_text_width(shapes[i]) <= 0 THEN shapes
    ELSE IF TargetWidth(shapes, i, sw) > shapes[i].width
    THEN Grown(shapes, i, TargetWidth(shapes, i, sw))
    ELSE shapes

\* src/generatePPT.py:395-415
_adjust_text_shape(shapes, i, sw) ==
    IF _estimate_text_width(shapes[i]) <= 0 THEN shapes
    ELSE IF TargetWidth(shapes, i, sw) > shapes[i].width
    THEN Grown(shapes, i, TargetWidth(shapes, i, sw))
    ELSE IF Available(shapes, i, sw) < _estimate_text_width(shapes[i])
    THEN [shapes EXCEPT ![i] = _shrink_font(@, Available(shapes, i, sw),
                                  _estimate_text_width(shapes[i]))]
    ELSE shapes

\* the test of src/generatePPT.py:387-391, the name not looked at
Expandable_AnyText(shape) == has_text_frame(shape)

\* the test of src/generatePPT.py:387-391
Expandable(shape) ==
    has_text_frame(shape) /\ AnyIn(EXPANDABLE_KEYWORDS, shape.name)

\* src/generatePPT.py:374-381
_clear_default_subtitles(shapes) ==
    [n \in 1..Len(shapes) |->
        IF /\ n \in Range(_iter_shapes(shapes))
           /\ has_text_frame(shapes[n])
           /\ \/ \E k \in 1..Len(SUBTITLE_TEXTS) :
                    strip(FrameText(shapes[n])) = SUBTITLE_TEXTS[k]
              \/ AnyIn(PLACEHOLDER_KEYWORDS, strip(FrameText(shapes[n])))
        THEN ClearFrame(shapes[n])
        ELSE shapes[n]]

\* ------------------------------------------------------ _fill_slide, by step
(***************************************************************************)
(* fpc: "start", "structural" (the loop of line 307), "fallback" (the loop *)
(* of line 330), "clear" (line 370), "layout" (line 371, one shape of      *)
(* all_shapes per step), "returned", "raised".                             *)
(* all_shapes and the name tables are built once, from the shapes of the   *)
(* template; a shape that was removed stays in them.  The loop of line 307 *)
(* is taken over the shapes the template gave the slide.                   *)
(***************************************************************************)
Applied(key, shape, via, kind, value) ==
    [key |-> key, shape |-> shape, via |-> via, kind |-> kind,
     value |-> value]

\* where the call goes after the loop of line 307, line 330 and line 370
AfterStructural == IF page_content = <<>> THEN "clear" ELSE "fallback"
AfterClear(shapes) == IF _iter_shapes(shapes) = <<>> THEN "returned" ELSE "layout"

\* src/generatePPT.py:287-305
FillStart ==
    /\ fpc = "start"
    /\ prefix' = _detect_prefix(slide)
    /\ text_placeholders' =
          SelectSeq(Named(slide), LAMBDA n : _is_placeholder_shape(slide[n]))
    /\ picture_placeholders' =
          SelectSeq(Named(slide), LAMBDA n : _is_picture_shape(slide[n]))
    /\ cursor' = 1
    /\ fpc' = IF slide = <<>> THEN AfterStructural ELSE "structural"
    /\ UNCHANGED <<assembly, restorer, web, slide, page_content, slide_width,
                   image_files, used_text_shapes, used_picture_shapes,
                   warnings, raised, applied, before>>

\* what handing value to shape n does: src/generatePPT.py:316-327, 357-366
Apply(shapes, n, value, files) ==
    IF _is_picture_shape(shapes[n])
    THEN _replace_picture(shapes, n, value, files) @@ [kind |-> "picture"]
    ELSE IF has_text_frame(shapes[n])
    THEN [slide |-> [shapes EXCEPT ![n] =
                        IF value # <<>> THEN _set_shape_text(@, value)
                        ELSE ClearFrame(@)],
          warned |-> <<>>, raised |-> "none", kind |-> "text"]
    ELSE [slide |-> shapes, warned |-> <<>>, raised |-> "none",
          kind |-> "none"]

\* src/generatePPT.py:307-327, one shape
StructuralStep ==
    /\ fpc = "structural"
    /\ LET n == cursor
           label_path == _normalize_path(PathOf(slide, n), prefix)
           bound == label_path # <<>> /\ InContentMap(page_content, label_path)
           value == ContentAt(page_content, label_path)
           done == Apply(slide, n, value, image_files)
           last == cursor = Cardinality(Template_Shapes(slide))
       IN  IF bound /\ done.kind # "none"
           THEN /\ slide' = done.slide
                /\ warnings' = warnings \o done.warned
                /\ raised' = done.raised
                /\ applied' = Append(applied,
                      Applied(label_path, n, "path", done.kind, value))
                /\ IF done.raised # "none"
                   THEN /\ fpc' = "raised"
                        /\ UNCHANGED <<cursor, used_text_shapes,
                                       used_picture_shapes>>
                   ELSE /\ fpc' = IF last THEN AfterStructural ELSE fpc
                        /\ cursor' = IF last THEN 1 ELSE cursor + 1
                        /\ used_picture_shapes' =
                              IF done.kind = "picture"
                              THEN used_picture_shapes \cup {slide[n].name}
                              ELSE used_picture_shapes
                        /\ used_text_shapes' =
                              IF done.kind = "text"
                              THEN used_text_shapes \cup {slide[n].name}
                              ELSE used_text_shapes
           ELSE /\ fpc' = IF last THEN AfterStructural ELSE fpc
                /\ cursor' = IF last THEN 1 ELSE cursor + 1
                /\ UNCHANGED <<slide, warnings, raised, applied,
                               used_text_shapes, used_picture_shapes>>
    /\ UNCHANGED <<assembly, restorer, web, page_content, slide_width, image_files,
                   prefix, text_placeholders, picture_placeholders, before>>

\* the shape the loop of line 330 finds for area_name, and how:
\* src/generatePPT.py:333-354
Found(shapes, area_name, texts, pictures) ==
    LET by_alias == FirstByName(shapes, _candidate_keys(area_name))
        by_manual == IF MANUAL_NAME_MAP(area_name) # <<>>
                     THEN FirstByExact(shapes, MANUAL_NAME_MAP(area_name))
                     ELSE 0
        by_subtitle == IF In(SubtitleWord, area_name)
                       THEN FirstByExact(shapes, MANUAL_NAME_MAP(SubtitleWord))
                       ELSE 0
        wants_text == In(ContentWord, area_name) \/ In(SubtitleWord, area_name)
        wants_picture == In(PictureArea, area_name) \/ In(PictureWord, area_name)
    IN  IF by_alias # 0 THEN [shape |-> by_alias, via |-> "alias"]
        ELSE IF by_manual # 0 THEN [shape |-> by_manual, via |-> "manual"]
        ELSE IF by_subtitle # 0 THEN [shape |-> by_subtitle, via |-> "manual"]
        ELSE IF wants_text /\ texts # <<>>
        THEN [shape |-> Head(texts), via |-> "text_placeholder"]
        ELSE IF wants_picture /\ pictures # <<>>
        THEN [shape |-> Head(pictures), via |-> "picture_placeholder"]
        ELSE [shape |-> 0, via |-> "none"]

\* src/generatePPT.py:330-368, one item
FallbackStep ==
    /\ fpc = "fallback"
    /\ LET item == page_content[cursor]
           found == Found(slide, item.key, text_placeholders,
                          picture_placeholders)
           done == Apply(slide, found.shape, item.value, image_files)
           last == cursor = Len(page_content)
       IN  IF item.isdict
           THEN /\ fpc' = IF last THEN "clear" ELSE fpc
                /\ cursor' = IF last THEN 1 ELSE cursor + 1
                /\ UNCHANGED <<slide, warnings, raised, applied,
                               text_placeholders, picture_placeholders>>
           ELSE IF found.shape = 0
           THEN /\ warnings' = Append(warnings, Warning("unmatched", item.key))
                /\ fpc' = IF last THEN "clear" ELSE fpc
                /\ cursor' = IF last THEN 1 ELSE cursor + 1
                /\ UNCHANGED <<slide, raised, applied, text_placeholders,
                               picture_placeholders>>
           ELSE /\ text_placeholders' =
                      IF found.via = "text_placeholder"
                      THEN Tail(text_placeholders) ELSE text_placeholders
                /\ picture_placeholders' =
                      IF found.via = "picture_placeholder"
                      THEN Tail(picture_placeholders) ELSE picture_placeholders
                /\ slide' = done.slide
                /\ warnings' = warnings \o done.warned \o
                      (IF done.kind = "none"
                       THEN <<Warning("unsupported", item.key)>> ELSE <<>>)
                /\ raised' = done.raised
                /\ applied' = IF done.kind = "none" THEN applied
                              ELSE Append(applied,
                                     Applied(<<item.key>>, found.shape,
                                             found.via, done.kind, item.value))
                /\ IF done.raised # "none"
                   THEN fpc' = "raised" /\ UNCHANGED cursor
                   ELSE /\ fpc' = IF last THEN "clear" ELSE fpc
                        /\ cursor' = IF last THEN 1 ELSE cursor + 1
    /\ UNCHANGED <<assembly, restorer, web, page_content, slide_width, image_files,
                   prefix, used_text_shapes, used_picture_shapes, before>>

\* src/generatePPT.py:370
ClearDefaultSubtitles ==
    /\ fpc = "clear"
    /\ slide' = _clear_default_subtitles(slide)
    /\ fpc' = AfterClear(slide)
    /\ cursor' = 1
    /\ UNCHANGED <<assembly, restorer, web, page_content, slide_width, image_files,
                   prefix, text_placeholders, picture_placeholders,
                   used_text_shapes, used_picture_shapes, warnings, raised,
                   applied, before>>

\* src/generatePPT.py:371, 384-392, one shape of all_shapes
LayoutStep ==
    /\ fpc = "layout"
    /\ LET i == _iter_shapes(slide)[cursor]
           last == cursor = Len(_iter_shapes(slide))
       IN  /\ before' = [slide |-> slide,
                         shape |-> IF Expandable(slide[i]) THEN i ELSE 0]
           /\ slide' = IF Expandable(slide[i])
                       THEN _adjust_text_shape(slide, i, slide_width)
                       ELSE slide
           /\ fpc' = IF last THEN "returned" ELSE fpc
           /\ cursor' = IF last THEN 1 ELSE cursor + 1
    /\ UNCHANGED <<assembly, restorer, web, page_content, slide_width, image_files,
                   prefix, text_placeholders, picture_placeholders,
                   used_text_shapes, used_picture_shapes, warnings, raised,
                   applied>>

FillNext ==
    \/ FillStart
    \/ StructuralStep
    \/ FallbackStep
    \/ ClearDefaultSubtitles
    \/ LayoutStep

\* -------------------------------------------- initial states of _fill_slide
\* build_from_json is not under way
AssemblyIdle ==
    /\ fs = [p \in Paths |-> NoFile]
    /\ pages = <<>>
    /\ caller = "none"
    /\ template_path = "tpl"
    /\ dest = "out"
    /\ output_path = "out"
    /\ pc = "idle"
    /\ err = NoErr
    /\ run = 0
    /\ InitLocals
    /\ entry = fs
    /\ calls = <<>>
    /\ builds = <<>>
    /\ edited = NoEdit

\* 图文页1, 封面页: page prefixes of the repository's templates
PagePrefix == <<"tu", "wen", "ye", "1">>
CoverPrefix == <<"feng", "mian", "ye">>
\* 文字内容区1, 标题区, 图片区1, 学院, 字幕, 左栏
TextKey == <<"wen", "zi", "nei", "rong", "qu", "1">>
TitleKey == <<"biao", "ti", "qu">>
PictureKey == <<"tu", "pian", "qu", "1">>
SchoolKey == <<"xue", "yuan4">>
ColumnKey == <<"zuo", "lan">>
\* 背景, 组合 5
BackgroundName == <<"bei", "jing">>
GroupName == <<"zu", "he", " ", "5">>
\* prefix_key
Prefixed(page_prefix, key) == page_prefix \o <<"_">> \o key

\* the image paths a.png, b.png (no image inside) and g.png (no such file)
GoodImage == <<"a", ".", "p", "n", "g">>
BadImage == <<"b", ".", "p", "n", "g">>
GoneImage == <<"g", ".", "p", "n", "g">>
ImageFiles ==
    (GoodImage :> ImageFile(TRUE, 4, 3)) @@ (BadImage :> ImageFile(FALSE, 0, 0))

\* the text a template shape carries before it is filled
DefaultText == <<"wen", "zi", "nei", "rong">>
DefaultTitle == <<"biao", "ti", "ming", "cheng">>
OneParagraph(text, size) == << <<Run(text, size)>> >>
TextFrames ==
    {OneParagraph(DefaultText, 1800),
     << <<Run(DefaultText, 1800)>>, <<Run(DefaultText, 1800)>> >>,
     << <<Run(DefaultText, 1800), Run(<<"a">>, 0)>> >>,
     << <<>> >>}

\* n times the character 文
RECURSIVE Wen(_)
Wen(n) == IF n = 0 THEN <<>> ELSE <<"wen">> \o Wen(n - 1)

TextValues ==
    {<<>>, <<"a", "b">>, <<"a", "LF", "b">>, <<"zi", "mu", "a">>, Wen(MaxChars)}
ImageValues == {<<>>, GoodImage, BadImage, GoneImage}

\* a slide with one shape of each kind the binder tells apart
BindingSlide(frame) ==
    << At(TextShape(Prefixed(PagePrefix, TitleKey), 0,
                    OneParagraph(DefaultTitle, 2800)),
          100000, 0, 300000, 100000),
       At(TextShape(Prefixed(PagePrefix, TextKey), 0, frame),
          100000, 200000, 600000, 300000),
       At(Shape(Prefixed(PagePrefix, PictureKey), 0, "picture"),
          800000, 200000, 400000, 300000),
       At(TextShape(TextBoxName(<<"9">>), 0, OneParagraph(DefaultText, 1800)),
          100000, 600000, 600000, 100000),
       At(Shape(BackgroundName, 0, "other"),
          50000, 0, 400000, 100000) >>

\* the items a content tree is made of here
Items ==
    {Leaf(TextKey, v) : v \in TextValues}
    \cup {Leaf(TitleKey, v) : v \in {<<"a", "b">>, Wen(MaxChars)}}
    \cup {Leaf(PictureKey, v) : v \in ImageValues}
    \cup {Leaf(SchoolKey, <<"a", "b">>), Leaf(SubtitleWord, <<"a", "b">>),
          Leaf(DirectoryKey("1"), <<"a", "b">>),
          Dict(ColumnKey, <<Leaf(SchoolKey, <<"a", "b">>)>>),
          Dict(ColumnKey, <<Leaf(TextKey, <<"a", "b">>)>>)}

\* the content trees of one and of two items, the keys of a dict distinct
Contents ==
    {<<a>> : a \in Items}
    \cup UNION {{<<a, b>> : b \in {c \in Items : c.key # a.key}} :
                   a \in Items}

FillWith(shapes, content, sw) ==
    /\ AssemblyIdle
    /\ RestorerIdle
    /\ WebIdle
    /\ slide = shapes
    /\ page_content = content
    /\ slide_width = sw
    /\ image_files = ImageFiles
    /\ fpc = "start"
    /\ cursor = 0
    /\ prefix = NoPrefix
    /\ text_placeholders = <<>>
    /\ picture_placeholders = <<>>
    /\ used_text_shapes = {}
    /\ used_picture_shapes = {}
    /\ warnings = <<>>
    /\ raised = "none"
    /\ applied = <<>>
    /\ before = [slide |-> <<>>, shape |-> 0]

\* one slide against every content tree
InitBinding ==
    \E frame \in TextFrames, content \in Contents :
        FillWith(BindingSlide(frame), content, 2000000)

\* the names a shape of a template may carry: prefixed, prefixed otherwise,
\* decorative, none, blanks around it
ShapeNames ==
    {Prefixed(PagePrefix, TextKey), Prefixed(CoverPrefix, TextKey),
     Prefixed(CoverPrefix, TitleKey), BackgroundName, <<>>,
     <<" ">> \o Prefixed(PagePrefix, TextKey) \o <<" ">>}
GroupNames ==
    {GroupName, Prefixed(PagePrefix, ColumnKey), BackgroundName,
     Prefixed(PagePrefix, BackgroundName)}

PlainShape(name, parent) ==
    At(TextShape(name, parent,
                 << <<Run(DefaultText, 1800)>>, <<Run(DefaultText, 1800)>> >>),
       100000, 0, 600000, 100000)

\* up to MaxShapes top-level shapes; or a group of one or two members and a
\* top-level shape
NamedSlides ==
    UNION {[1..n -> {PlainShape(name, 0) : name \in ShapeNames}] :
              n \in 1..MaxShapes}
    \cup {<<Shape(g, 0, "group"), PlainShape(a, 1), PlainShape(b, 0)>> :
              g \in GroupNames, a \in ShapeNames \cup {TextKey},
              b \in ShapeNames}
    \cup {<<PlainShape(b, 0), Shape(g, 0, "group"), PlainShape(a, 2),
            PlainShape(TextKey, 2)>> :
              g \in GroupNames, a \in ShapeNames, b \in ShapeNames}

\* every slide of names against one flat and one nested content tree
InitNames ==
    \E shapes \in NamedSlides,
       content \in {<<Leaf(TextKey, <<"a", "b">>)>>,
                    <<Dict(ColumnKey, <<Leaf(TextKey, <<"a", "b">>)>>),
                      Leaf(TitleKey, <<"b">>)>>} :
        FillWith(shapes, content, 2000000)

\* a title, the shape next to it and a background in every relative position,
\* against titles of every length
LayoutSlide(size, w, near_kind, near_left, near_top, bg_left, bg_height) ==
    << At(TextShape(Prefixed(PagePrefix, TitleKey), 0,
                    OneParagraph(DefaultTitle, size)),
          100000, 0, w, 100000),
       At([Shape(Prefixed(PagePrefix, TextKey), 0, near_kind) EXCEPT
             !.paragraphs = IF near_kind = "text"
                            THEN OneParagraph(DefaultText, 1800) ELSE <<>>],
          near_left, near_top, 300000, 100000),
       At(Shape(BackgroundName, 0, "other"),
          bg_left, 0, 400000, bg_height) >>

InitLayout ==
    \E size \in {2800, 1800, 0}, w \in {300000, 500000},
       near_kind \in {"text", "other"},
       near_left \in {420000, 700000, 60000}, near_top \in {0, 200000},
       bg_left \in {50000, 150000}, bg_height \in {100000, 40000},
       n \in 0..MaxChars, sw \in {2000000, 600000} :
        FillWith(LayoutSlide(size, w, near_kind, near_left, near_top, bg_left,
                             bg_height),
                 <<Leaf(TitleKey, Wen(n))>>, sw)

\* 标题: the key 标题区 without its suffix word
TitleWord == <<"biao", "ti">>

\* two keys of one content tree that share an alias of a shape, in both orders
InitAliases ==
    \E v \in {<<"a", "b">>, <<>>}, w \in {<<"b">>, Wen(MaxChars)} :
        \E content \in {<<Leaf(TitleKey, v), Leaf(TitleWord, w)>>,
                        <<Leaf(TitleWord, w), Leaf(TitleKey, v)>>} :
            FillWith(BindingSlide(OneParagraph(DefaultText, 1800)), content,
                     2000000)

FillInit == InitBinding \/ InitNames \/ InitLayout \/ InitAliases

FillSpec == FillInit /\ [][FillNext]_vars


\* ======================================================= claims: the binder
\* the path names no file, or a file that holds no image
Unusable(path) ==
    /\ path # <<>>
    /\ path \notin DOMAIN image_files \/ ~image_files[path].decodable

\* some warning names what
Warned(kind, what) ==
    \E w \in 1..Len(warnings) : warnings[w] = Warning(kind, what)

\* C11: a picture shape that was handed a path which names no file, or a
\* file that cannot be decoded, is off the slide, a warning names the path,
\* and no exception has left _fill_slide.
C11_UnusableImageRemovedAndWarned ==
    \A k \in 1..Len(applied) :
        applied[k].kind = "picture" /\ Unusable(applied[k].value)
        => /\ ~slide[applied[k].shape].onslide
           /\ Warned("image", applied[k].value)
           /\ raised = "none"

\* the groups that enclose shape n
RECURSIVE Ancestors(_, _)
Ancestors(shapes, n) ==
    IF shapes[n].parent = 0 THEN {}
    ELSE {shapes[n].parent} \cup Ancestors(shapes, shapes[n].parent)

\* K, for a shape named P_K
KeyOf(shape, page_prefix) ==
    Slice(strip(shape.name), Len(page_prefix) + 2, Len(strip(shape.name)))

\* shape n is a text shape named P_K for the detected prefix P, K holds no
\* decorative keyword, no enclosing group holds P in its name, and the
\* content tree has a leaf at (K,)
PrefixedTextShape(n) ==
    /\ prefix # NoPrefix
    /\ n \in Template_Shapes(slide)
    /\ has_text_frame(slide[n]) /\ ~_is_picture_shape(slide[n])
    /\ startswith(strip(slide[n].name), prefix \o <<"_">>)
    /\ KeyOf(slide[n], prefix) # <<>>
    /\ ~AnyIn(IGNORE_KEYWORDS, KeyOf(slide[n], prefix))
    /\ \A g \in Ancestors(slide, n) : ~In(prefix, PathName(slide, g))
    /\ InContentMap(page_content, <<KeyOf(slide[n], prefix)>>)

\* the loop of line 307 has dealt with shape n
StructuralPassed(n) ==
    \/ fpc = "structural" /\ n < cursor
    \/ fpc \in {"fallback", "clear", "layout", "returned"}

\* nothing ran since the loop of line 307 dealt with shape n
JustBound(n) ==
    \/ fpc = "structural" /\ n < cursor
    \/ fpc = "fallback" /\ cursor = 1

\* the loop of line 307 handed the leaf at key to shape n
BoundByPath(n, key) ==
    \E k \in 1..Len(applied) :
        /\ applied[k].shape = n
        /\ applied[k].key = key
        /\ applied[k].via = "path"
        /\ applied[k].value = ContentAt(page_content, key)

\* the paragraphs of the shape hold the lines of value, one each, and every
\* paragraph after them is empty
HoldsLines(shape, value) ==
    LET lines == split(value, LF)
    IN  /\ Len(shape.paragraphs) >= Len(lines)
        /\ \A p \in 1..Len(shape.paragraphs) :
              ParagraphText(shape.paragraphs[p]) =
                  IF p <= Len(lines) THEN lines[p] ELSE <<>>

\* C12 as stated: a text shape named P_K is bound to the leaf at (K,), and
\* after a non-empty value was bound the text of the shape is that value.
C12_PrefixedShapeTextIsValue ==
    \A n \in 1..Len(slide) :
        PrefixedTextShape(n) /\ StructuralPassed(n)
        => LET key == <<KeyOf(slide[n], prefix)>>
               value == ContentAt(page_content, key)
           IN  /\ BoundByPath(n, key)
               /\ JustBound(n) /\ value # <<>> => FrameText(slide[n]) = value

\* C12, amended: a text shape named P_K is bound to the leaf at (K,), and
\* after a non-empty value was bound the paragraphs of the shape hold the
\* lines of the value, followed only by empty paragraphs.
C12_PrefixedShapeHoldsValue ==
    \A n \in 1..Len(slide) :
        PrefixedTextShape(n) /\ StructuralPassed(n)
        => LET key == <<KeyOf(slide[n], prefix)>>
               value == ContentAt(page_content, key)
           IN  /\ BoundByPath(n, key)
               /\ JustBound(n) /\ value # <<>>
                  => HoldsLines(slide[n], value)

\* a shape named P_K inside a group was bound by its path to a non-empty
\* value, and a paragraph of the template is left over after its lines
C12_Witness ==
    \E n \in 1..Len(slide) :
        /\ PrefixedTextShape(n) /\ JustBound(n)
        /\ slide[n].parent # 0
        /\ BoundByPath(n, <<KeyOf(slide[n], prefix)>>)
        /\ ContentAt(page_content, <<KeyOf(slide[n], prefix)>>) # <<>>
        /\ Len(slide[n].paragraphs) >
              Len(split(ContentAt(page_content, <<KeyOf(slide[n], prefix)>>),
                        LF))

\* both loops of _fill_slide have run
KeysProcessed == fpc \in {"clear", "layout", "returned"}

\* some shape was handed the leaf at path
Matched(path) == \E k \in 1..Len(applied) : applied[k].key = path

\* some warning names a key of path
WarnedAbout(path) ==
    \E w \in 1..Len(warnings), k \in 1..Len(path) :
        /\ warnings[w].kind \in {"unmatched", "unsupported"}
        /\ warnings[w].what = path[k]

\* C15: once the keys of the slide are processed, every leaf of the content
\* tree, top-level or nested, that was handed to no shape has a warning that
\* names its key.
C15_UnmatchedLeafWarned ==
    KeysProcessed
    => \A n \in 1..Len(_flatten_content(page_content)) :
          ~Matched(_flatten_content(page_content)[n].path)
          => WarnedAbout(_flatten_content(page_content)[n].path)


\* applied[k] is the last value handed to its shape
LastWrite(k) ==
    \A j \in (k + 1)..Len(applied) : applied[j].shape # applied[k].shape

\* C16: when _fill_slide has returned, every text shape still holds the
\* non-empty value that was bound to it last.
C16_BoundTextKept ==
    fpc = "returned"
    => \A k \in 1..Len(applied) :
          applied[k].kind = "text" /\ applied[k].value # <<>> /\ LastWrite(k)
          => HoldsLines(slide[applied[k].shape], applied[k].value)


\* the pictures _replace_picture added that are on the slide
AddedPictures == {n \in 1..Len(slide) : slide[n].added /\ slide[n].onslide}

\* the keys that were handed to a picture shape
PictureKeys ==
    {applied[k].key : k \in {j \in 1..Len(applied) :
                                applied[j].kind = "picture"}}

\* C17: a key that the structural loop bound is not applied again by the
\* fallback loop, no key is handed to more than one shape, and the slide
\* gains at most one picture for each picture key.
C17_FallbackSkipsConsumedKeys ==
    /\ \A j, k \in 1..Len(applied) :
          applied[j].via = "path" /\ applied[k].via # "path"
          => applied[j].key # applied[k].key
    /\ \A j, k \in 1..Len(applied) :
          applied[j].key = applied[k].key => j = k
    /\ Cardinality(AddedPictures) <= Cardinality(PictureKeys)


\* C20: the detected prefix is a token of the highest count and, among the
\* tokens of that count, of the greatest length; there is none exactly when
\* no segment yields a token.
C20_MostFrequentThenLongest ==
    fpc \notin {"idle", "start"}
    => LET tokens == PrefixTokens(slide)
       IN  IF tokens = <<>> THEN prefix = NoPrefix
           ELSE /\ prefix \in Range(tokens)
                /\ \A t \in Range(tokens) :
                      /\ CountOf(tokens, t) <= CountOf(tokens, prefix)
                      /\ CountOf(tokens, t) = CountOf(tokens, prefix)
                         => Len(t) <= Len(prefix)


\* ======================================================= claims: the layout
\* the last step was a call of _adjust_text_shape, on shape before.shape
Adjusted == fpc \in {"layout", "returned"} /\ before.shape # 0

\* the sizes of the runs of a shape that carry a size, by position
SizedRuns(shape) ==
    UNION {{<<p, r>> : r \in {q \in 1..Len(shape.paragraphs[p]) :
                                shape.paragraphs[p][q].size # 0}} :
              p \in 1..Len(shape.paragraphs)}

SizeAt(shape, pr) == shape.paragraphs[pr[1]][pr[2]].size

\* the call made the shape wider, within the right-hand limit
Enlarged(old, new, i) ==
    /\ new[i].width > old[i].width
    /\ new[i].left + new[i].width <= _find_right_limit(old, i, slide_width)

\* the call made every sized run smaller, none below 60% of its size
Reduced(old, new, i) ==
    /\ SizedRuns(old[i]) # {}
    /\ \A pr \in SizedRuns(old[i]) :
          /\ SizeAt(new[i], pr) < SizeAt(old[i], pr)
          /\ 10 * SizeAt(new[i], pr) >= 6 * SizeAt(old[i], pr)

Room(shapes, i) ==
    _find_right_limit(shapes, i, slide_width) - H_PADDING - shapes[i].left

\* C18: when the text of the shape is estimated no wider than the shape,
\* _adjust_text_shape leaves every width, left edge and font size of the
\* slide as it was.
C18_FittingTextLeftAlone ==
    Adjusted /\ MaxLine(before.slide[before.shape])
                    <= before.slide[before.shape].width
    => slide = before.slide

\* C19: when the text of the shape is estimated wider than the shape and
\* than the room up to the limit less the padding, _adjust_text_shape keeps
\* the width and scales every sized run by available / needed, not below
\* 0.6.
C19_OverflowShrinksFont ==
    Adjusted /\ MaxLine(before.slide[before.shape])
                    > before.slide[before.shape].width
             /\ MaxLine(before.slide[before.shape])
                    > Room(before.slide, before.shape)
    => /\ slide[before.shape].width = before.slide[before.shape].width
       /\ \A pr \in SizedRuns(before.slide[before.shape]) :
             10 * SizeAt(slide[before.shape], pr)
                 >= 6 * SizeAt(before.slide[before.shape], pr)
             /\ SizeAt(slide[before.shape], pr)
                    < SizeAt(before.slide[before.shape], pr)


\* ===================================================== the connector preserver
(***************************************************************************)
(* src/generatePPT.py: _extract_connectors, _restore_connectors and the    *)
(* lines of generate_ppt between them.                                     *)
(*                                                                         *)
(* A slide part is [tree, nodes, by]: tree says whether the part has a     *)
(* p:spTree, nodes are the children of the p:spTree in document order, by  *)
(* is the library that serialised the part ("pptx" or "lxml").  A node is  *)
(* [tag, id, children]; only a p:grpSp has children.  A snippet is the     *)
(* node etree.tostring was given.  Every other part is a Blob.             *)
(***************************************************************************)
Node(tag, id) == [tag |-> tag, id |-> id, children |-> <<>>]
Group(id, children) == [tag |-> "grpSp", id |-> id, children |-> children]
SlidePart(nodes) == [tree |-> TRUE, nodes |-> nodes, by |-> "pptx"]

\* SLIDE_RE.fullmatch(name)
IsSlideName(name) == name[1] = "slide"

\* root.xpath(".//p:cxnSp"): the connectors at any depth, in document order
RECURSIVE Descendants(_)
Descendants(nodes) ==
    IF nodes = <<>> THEN <<>>
    ELSE <<Head(nodes)>> \o Descendants(Head(nodes).children)
         \o Descendants(Tail(nodes))

ConnectorsIn(nodes) ==
    SelectSeq(Descendants(nodes), LAMBDA node : node.tag = "cxnSp")

\* src/generatePPT.py:483-495: slide index -> snippets, for the slides that
\* hold a connector
_extract_connectors(parts) ==
    LET found == {name \in DOMAIN parts :
                    /\ IsSlideName(name)
                    /\ ConnectorsIn(parts[name].nodes) # <<>>}
    IN  [slide_idx \in {name[2] : name \in found} |->
            ConnectorsIn(parts[<<"slide", slide_idx>>].nodes)]

\* connectors.get(slide_idx)
SnippetsFor(snapshot, slide_idx) ==
    IF slide_idx \in DOMAIN snapshot THEN snapshot[slide_idx] ELSE <<>>

\* src/generatePPT.py:516-520: the p:cxnSp children of the tree go, the
\* snippets are appended, the part is serialised by lxml
Restored(part, snippets) ==
    [tree |-> TRUE,
     nodes |-> SelectSeq(part.nodes, LAMBDA node : node.tag # "cxnSp")
               \o snippets,
     by |-> "lxml"]

\* src/generatePPT.py:505-520, every slide part with a tree rewritten
RestoredPart_EverySlide(parts, name, snapshot) ==
    IF IsSlideName(name) /\ parts[name].tree
    THEN Restored(parts[name], SnippetsFor(snapshot, name[2]))
    ELSE parts[name]

\* src/generatePPT.py:505-520: entries[name] after the loop
RestoredPart(parts, name, snapshot) ==
    IF /\ IsSlideName(name)
       /\ SnippetsFor(snapshot, name[2]) # <<>>
       /\ parts[name].tree
    THEN Restored(parts[name], SnippetsFor(snapshot, name[2]))
    ELSE parts[name]

\* modified, of src/generatePPT.py:503-521
Modified(parts, snapshot) ==
    \E name \in DOMAIN parts :
        /\ IsSlideName(name)
        /\ SnippetsFor(snapshot, name[2]) # <<>>
        /\ parts[name].tree

\* src/generatePPT.py:498-526: the parts of the file afterwards, and whether
\* the file was read and rewritten
_restore_connectors(parts, snapshot) ==
    IF DOMAIN snapshot = {}
    THEN [parts |-> parts, read |-> FALSE, written |-> FALSE]
    ELSE IF ~Modified(parts, snapshot)
    THEN [parts |-> parts, read |-> TRUE, written |-> FALSE]
    ELSE [parts |-> [name \in DOMAIN parts |->
                        RestoredPart(parts, name, snapshot)],
          read |-> TRUE, written |-> TRUE]

\* ----------------------------------------- initial states of the preserver
\* the trees a slide may hold: shapes, connectors, groups with connectors
Trees ==
    {<<>>,
     <<Node("sp", 1)>>,
     <<Node("sp", 1), Node("cxnSp", 2)>>,
     <<Node("cxnSp", 2), Node("sp", 1), Node("cxnSp", 3)>>,
     <<Group(4, <<Node("cxnSp", 5)>>), Node("sp", 1)>>,
     <<Group(4, <<Node("cxnSp", 5), Node("sp", 6)>>), Node("cxnSp", 2)>>}

\* a package of the slides 1..n with the given trees, and its other parts
PackageOf(trees) ==
    [name \in {<<"slide", k>> : k \in 1..Len(trees)}
              \cup {<<"slideRels", k>> : k \in 1..Len(trees)}
              \cup {<<"pres", 0>>, <<"media", 1>>} |->
        IF name[1] = "slide" THEN SlidePart(trees[name[2]])
        ELSE Blob(name)]

Packages ==
    UNION {{PackageOf(trees) : trees \in [1..n -> Trees]} : n \in 1..MaxPlanLen}

\* the snapshots a caller may hand over: entries for some slide indices,
\* empty ones among them
Snapshots ==
    UNION {[S -> {<<>>, <<Node("cxnSp", 7)>>,
                  <<Node("cxnSp", 7), Node("cxnSp", 8)>>}] :
              S \in SUBSET (1..(MaxPlanLen + 1))}

RestoreWith(parts, snapshot, at) ==
    /\ AssemblyIdle
    /\ BinderIdle
    /\ WebIdle
    /\ package = parts
    /\ connectors = snapshot
    /\ rpc = at
    /\ io = [reads |-> 0, writes |-> 0]
    /\ package_before = parts
    /\ temp_ppt = parts

\* generate_ppt at line 541: the temporary file is built
InitPipeline == \E parts \in Packages : RestoreWith(parts, <<>>, "extract")

\* _restore_connectors called with any snapshot on any file
InitRestore ==
    \E parts \in Packages, snapshot \in Snapshots, tree \in BOOLEAN :
        RestoreWith([parts EXCEPT ![<<"slide", 1>>] =
                        IF tree THEN @
                        ELSE [tree |-> FALSE, nodes |-> <<>>, by |-> "pptx"]],
                    snapshot, "restore")

RestoreInit == InitPipeline \/ InitRestore

\* ------------------------------------------------ actions of the preserver
\* src/generatePPT.py:541
ExtractConnectors ==
    /\ rpc = "extract"
    /\ connectors' = _extract_connectors(package)
    /\ rpc' = "roundtrip"
    /\ UNCHANGED <<assembly, binder, web, package, io, package_before, temp_ppt>>

\* what Presentation(temp_ppt) ... prs.save(output_path) may leave of a tree:
\* the library is outside this repository, so every subset of the connectors
\* may be lost, at top level and inside groups
RECURSIVE Without(_, _)
Without(nodes, lost) ==
    IF nodes = <<>> THEN <<>>
    ELSE (IF Head(nodes).tag = "cxnSp" /\ Head(nodes).id \in lost THEN <<>>
          ELSE <<[Head(nodes) EXCEPT
                    !.children = Without(Head(nodes).children, lost)]>>)
         \o Without(Tail(nodes), lost)

ConnectorIds(parts) ==
    UNION {{node.id : node \in Range(ConnectorsIn(parts[name].nodes))} :
              name \in {n \in DOMAIN parts : IsSlideName(n)}}

\* src/generatePPT.py:542-549
RoundTrip ==
    /\ rpc = "roundtrip"
    /\ \E lost \in SUBSET ConnectorIds(package) :
          package' = [name \in DOMAIN package |->
                         IF IsSlideName(name)
                         THEN SlidePart(Without(package[name].nodes, lost))
                         ELSE package[name]]
    /\ package_before' = package'
    /\ rpc' = "restore"
    /\ UNCHANGED <<assembly, binder, web, connectors, io, temp_ppt>>

\* src/generatePPT.py:550, 498-526
RestoreConnectors ==
    /\ rpc \in {"restore", "again"}
    /\ LET done == _restore_connectors(package, connectors)
       IN  /\ package' = done.parts
           /\ io' = [reads |-> io.reads + (IF done.read THEN 1 ELSE 0),
                     writes |-> io.writes + (IF done.written THEN 1 ELSE 0)]
    /\ package_before' = package
    /\ rpc' = IF rpc = "restore" THEN "again" ELSE "done"
    /\ UNCHANGED <<assembly, binder, web, connectors, temp_ppt>>

RestoreNext ==
    \/ ExtractConnectors
    \/ RoundTrip
    \/ RestoreConnectors

RestoreSpec == RestoreInit /\ [][RestoreNext]_vars


\* ==================================================== claims: the preserver
\* a call of _restore_connectors has returned; package_before is the file
\* as the call found it
Restored_Once == rpc \in {"again", "done"}

\* the snapshot holds a non-empty entry for the slide of this name
InSnapshot(name) ==
    IsSlideName(name) /\ SnippetsFor(connectors, name[2]) # <<>>

\* C14: with an empty snapshot _restore_connectors neither reads nor rewrites
\* the file; with any snapshot the file keeps its parts, and every part but
\* the slides with a non-empty entry of the snapshot keeps its content.
C14_RestoreTouchesOnlySnapshotSlides ==
    Restored_Once
    => /\ DOMAIN package = DOMAIN package_before
       /\ DOMAIN connectors = {}
          => io = [reads |-> 0, writes |-> 0] /\ package = package_before
       /\ \A name \in DOMAIN package :
             ~InSnapshot(name) => package[name] = package_before[name]

\* a call rewrote one slide and left alone another that holds a connector
\* and has an empty entry in the snapshot
C14_Witness ==
    /\ rpc = "again"
    /\ \E name \in DOMAIN package :
          InSnapshot(name) /\ package[name] # package_before[name]
    /\ \E name \in DOMAIN package :
          /\ IsSlideName(name)
          /\ name[2] \in DOMAIN connectors
          /\ connectors[name[2]] = <<>>
          /\ ConnectorsIn(package_before[name].nodes) # <<>>
          /\ package[name] = package_before[name]

\* ============================================= claims: the binder, continued
\* the entries of applied that came from a list of generic placeholders
FromPlaceholder(j) ==
    applied[j].via \in {"text_placeholder", "picture_placeholder"}

\* C21: a shape the fallback step takes from the lists of generic
\* placeholders was handed no value earlier in the same call: not by
\* structural-path matching, not by alias or manual matching, and not as a
\* placeholder for another key.
C21_PlaceholderHandedOutOnceAndUnused ==
    \A j \in 1..Len(applied) :
        FromPlaceholder(j) =>
            \A k \in 1..(j - 1) : applied[k].shape # applied[j].shape

\* the keys whose values were handed to shape n, in the order of the writes
KeysBoundTo(n) ==
    {applied[j].key : j \in {k \in 1..Len(applied) : applied[k].shape = n}}

\* C22: within one call no shape is handed the values of two distinct keys
\* of the content tree.
C22_OneKeyPerShape ==
    \A n \in 1..Len(slide) : Cardinality(KeysBoundTo(n)) <= 1

\* ========================================== claims: the preserver, continued
\* the snapshot is the one _extract_connectors took of temp_ppt: the run is
\* generate_ppt's
Piped == connectors = _extract_connectors(temp_ppt)

\* how often the connector occurs in the tree, at any depth
Occurrences(nodes, connector) ==
    Len(SelectSeq(Descendants(nodes), LAMBDA node : node = connector))

\* C23: after snapshot, round trip and _restore_connectors every slide of
\* the snapshot holds each snapshotted connector exactly once, whatever the
\* round trip kept, connectors inside groups included; a second call with
\* the same snapshot leaves the parts as they are.
C23_EveryConnectorExactlyOnce ==
    (Restored_Once /\ Piped)
    => /\ \A slide_idx \in DOMAIN connectors :
             \A k \in 1..Len(connectors[slide_idx]) :
                 Occurrences(package[<<"slide", slide_idx>>].nodes,
                             connectors[slide_idx][k]) = 1
       /\ rpc = "done" => package = package_before

\* ========================================== claims: the assembly, continued
\* _update_presentation_rels has just returned
RelsUpdated == pc = "pres_xml"

\* the presentation's relationships in the template
TemplatePresRels == file_bytes[<<"presRels", 0>>]

\* the numbers of the Ids of the form rId<digits>
NumericIds(root) ==
    {ParseInt(Suffix3(root[p].Id)) :
        p \in {q \in 1..Len(root) :
                 StartsWithRId(root[q].Id) /\ IsDigit(Suffix3(root[q].Id))}}

\* m: the highest of them, 0 if there is none
HighestId(root) == IF NumericIds(root) = {} THEN 0 ELSE MaxOf(NumericIds(root))

\* the relationship targets a slide part, in whichever form it is written
TargetsSlidePart(rel) == rel.Target.part[1] = "slide"

\* the new relationships in the order the claim gives
ExpectedSlideRels(m, n) ==
    [i \in 1..n |-> Rel(RId(m + i), SlideType, FALSE, <<"slide", i>>)]

\* C24: _update_presentation_rels removes every template relationship that
\* targets a slide and adds exactly N slide relationships rId(m+1)..rId(m+N)
\* in slide order, the i-th targeting slide i, where m is the highest number
\* of an rId<digits> Id of the template (0 if none); every new Id is above
\* every numeric Id of the template and the other relationships are kept.
C24_FreshSlideRelationships ==
    RelsUpdated =>
        LET m == HighestId(TemplatePresRels)
        IN  /\ SelectSeq(pres_rels, TargetsSlidePart)
                 = ExpectedSlideRels(m, slide_total)
            /\ new_rel_ids = [i \in 1..slide_total |-> RId(m + i)]
            /\ \A i \in 1..slide_total :
                  \A k \in NumericIds(TemplatePresRels) :
                      ParseInt(Suffix3(new_rel_ids[i])) > k
            /\ SelectSeq(pres_rels, LAMBDA rel : ~TargetsSlidePart(rel))
                 = SelectSeq(TemplatePresRels,
                             LAMBDA rel : ~TargetsSlidePart(rel))

\* the kinds of part that hold relationships
RelsKinds == {"presRels", "slideRels", "notesRels"}

\* C28: in every output of build_from_json every relationship, of any
\* relationship part, whose target is a slide part names a slide part the
\* output has; the parts copied from the template (notes slides among them)
\* hold no relationship to a slide above N.
C28_SlideTargetsExist ==
    BuildReturned =>
        \A n \in {k \in DOMAIN Built : k[1] \in RelsKinds} :
            \A rel \in Range(Built[n]) :
                TargetsSlidePart(rel) => rel.Target.part \in DOMAIN Built

\* ============================================ claims: the normalised path
\* prefix is set: line 287 has run
PrefixDetected == fpc \notin {"idle", "start"} /\ prefix # NoPrefix

\* the segment without a leading "P_"
WithoutPrefix(segment, page_prefix) ==
    IF startswith(segment, page_prefix \o <<"_">>)
    THEN Slice(segment, Len(page_prefix) + 2, Len(segment))
    ELSE segment

\* the path from the first segment in which P occurs onward; empty if none
FromFirstOccurrence(path, page_prefix) ==
    LET hits == {k \in 1..Len(path) : In(page_prefix, path[k])}
        first == CHOOSE k \in hits : \A m \in hits : k <= m
    IN  IF hits = {} THEN <<>> ELSE SubSeq(path, first, Len(path))

Decorative(segment) == AnyIn(IGNORE_KEYWORDS, segment)

\* the segments that are not decorative
Kept(segments) == SelectSeq(segments, LAMBDA segment : ~Decorative(segment))

\* the normal form with P stripped from the first remaining segment only
StrippedOnce(path, page_prefix) ==
    LET rest == FromFirstOccurrence(path, page_prefix)
    IN  Kept([k \in 1..Len(rest) |->
                IF k = 1 THEN WithoutPrefix(rest[k], page_prefix)
                ELSE rest[k]])

\* the normal form with P stripped from every remaining segment
StrippedEverywhere(path, page_prefix) ==
    LET rest == FromFirstOccurrence(path, page_prefix)
    IN  Kept([k \in 1..Len(rest) |-> WithoutPrefix(rest[k], page_prefix)])

\* a shape bound by structural-path matching has P somewhere in its path
PathBindingsHavePrefix ==
    \A j \in 1..Len(applied) :
        applied[j].via = "path" =>
            FromFirstOccurrence(PathOf(slide, applied[j].shape), prefix) # <<>>

\* C25 as stated: the normalised path is the path from the first segment in
\* which P occurs onward, P stripped from the first remaining segment only,
\* the decorative segments dropped; a path without P normalises to the
\* empty path and its shape is never bound by structural-path matching.
C25_PrefixStrippedFromFirstSegmentOnly ==
    PrefixDetected =>
        /\ \A n \in Template_Shapes(slide) :
              _normalize_path(PathOf(slide, n), prefix)
                = StrippedOnce(PathOf(slide, n), prefix)
        /\ PathBindingsHavePrefix

\* C25, amended: the same, with "P_" stripped from every remaining segment
\* that begins with it.
C25_PrefixStrippedFromEverySegment ==
    PrefixDetected =>
        /\ \A n \in Template_Shapes(slide) :
              _normalize_path(PathOf(slide, n), prefix)
                = StrippedEverywhere(PathOf(slide, n), prefix)
        /\ PathBindingsHavePrefix

\* a shape inside a group, both named with the prefix, was bound by its
\* path of two keys, next to a shape whose path has no prefix
C25_Witness ==
    /\ PrefixDetected
    /\ \E j \in 1..Len(applied) :
          /\ applied[j].via = "path"
          /\ Len(applied[j].key) = 2
          /\ \A k \in 1..2 :
                startswith(PathOf(slide, applied[j].shape)[k],
                           prefix \o <<"_">>)
    /\ \E n \in Template_Shapes(slide) :
          FromFirstOccurrence(PathOf(slide, n), prefix) = <<>>

\* ============================================ claims: the layout, continued
\* the last call of _adjust_text_shape made its text shape wider
Grew ==
    Adjusted /\ slide[before.shape].width > before.slide[before.shape].width

\* the non-text, non-picture shapes that overlap shape i vertically by at
\* least 60% of its height
Companions(shapes, i) ==
    {k \in Range(_iter_shapes(shapes)) :
        /\ k # i
        /\ ~has_text_frame(shapes[k])
        /\ ~_is_picture_shape(shapes[k])
        /\ Overlap(shapes[i], shapes[k]) > 0
        /\ 10 * Overlap(shapes[i], shapes[k]) >= 6 * shapes[i].height}

\* the widest of them
Widest(shapes, S) ==
    {k \in S : \A j \in S : shapes[j].width <= shapes[k].width}

\* C26: when _adjust_text_shape grows a text shape, the widest non-text,
\* non-picture shape that overlaps it vertically by at least 60% of its
\* height is its background: the width of that shape does not decrease and
\* is at least the new text width plus the padding, its left edge is at or
\* left of the text shape's, and no other candidate is touched.
C26_WidestCompanionGrows ==
    (Grew /\ Companions(before.slide, before.shape) # {})
    => \E bg \in Widest(before.slide,
                        Companions(before.slide, before.shape)) :
          /\ slide[bg].width >= before.slide[bg].width
          /\ slide[bg].width >= slide[before.shape].width + H_PADDING
          /\ slide[bg].left <= slide[before.shape].left
          /\ \A k \in Companions(before.slide, before.shape) \ {bg} :
                slide[k] = before.slide[k]

\* a title grew; of its two candidates the wider one was widened and the
\* narrower one left alone
C26_Witness ==
    /\ Grew
    /\ Cardinality(Companions(before.slide, before.shape)) = 2
    /\ \E bg \in Widest(before.slide,
                        Companions(before.slide, before.shape)) :
          /\ slide[bg].width > before.slide[bg].width
          /\ \E k \in Companions(before.slide, before.shape) \ {bg} :
                before.slide[k].width < before.slide[bg].width

\* C27: after _adjust_text_shape has grown a text shape together with its
\* background, the background spans the text shape horizontally, wherever
\* the background began.
C27_BackgroundSpansText ==
    (Grew /\ Companions(before.slide, before.shape) # {})
    => \E bg \in Widest(before.slide,
                        Companions(before.slide, before.shape)) :
          /\ slide[bg].left <= slide[before.shape].left
          /\ slide[bg].left + slide[bg].width
                >= slide[before.shape].left + slide[before.shape].width

\* a step of the layout pass has run; before.slide is the slide it found
LaidOut == fpc \in {"layout", "returned"} /\ before.slide # <<>>

\* the left, top, width, height and font sizes of a shape
Look(shape) ==
    [left |-> shape.left, top |-> shape.top, width |-> shape.width,
     height |-> shape.height,
     sizes |-> [p \in 1..Len(shape.paragraphs) |->
                  [r \in 1..Len(shape.paragraphs[p]) |->
                      shape.paragraphs[p][r].size]]]

\* a text shape whose name contains 标题, 名称, 课题 or 栏目
ExpandableText(shapes, k) ==
    has_text_frame(shapes[k]) /\ AnyIn(EXPANDABLE_KEYWORDS, shapes[k].name)

\* the companion background of such a shape
CompanionOfExpandable(shapes, k) ==
    \E t \in 1..Len(shapes) :
        /\ ExpandableText(shapes, t)
        /\ k \in Widest(shapes, Companions(shapes, t))

\* every top-level leaf was handed to a shape or warned about, and every
\* shape whose normalised path is a key of the content was handed its value
AllKeysProcessed ==
    /\ raised = "none"
    /\ \A n \in 1..Len(page_content) :
          ~page_content[n].isdict =>
              \/ Matched(<<page_content[n].key>>)
              \/ WarnedAbout(<<page_content[n].key>>)
    /\ \A n \in Template_Shapes(slide) :
          LET label_path == _normalize_path(PathOf(slide, n), prefix)
          IN  (/\ label_path # <<>>
               /\ InContentMap(page_content, label_path)
               /\ _is_picture_shape(slide[n]) \/ has_text_frame(slide[n]))
              => \E j \in 1..Len(applied) :
                    applied[j].via = "path" /\ applied[j].shape = n

\* C29: a step of the layout pass changes the left, top, width, height or
\* font sizes only of text shapes whose name contains an expandable keyword
\* and of the companion background of such a shape; the pass runs only when
\* every content key of the slide has been processed.
C29_LayoutTouchesOnlyExpandable ==
    /\ LaidOut =>
          /\ Len(slide) = Len(before.slide)
          /\ \A k \in 1..Len(slide) :
                Look(slide[k]) # Look(before.slide[k])
                => \/ ExpandableText(before.slide, k)
                   \/ CompanionOfExpandable(before.slide, k)
    /\ (fpc = "layout" \/ LaidOut) => AllKeysProcessed

\* the pass widened a title and its background and left alone a text shape
\* whose name has no expandable keyword, after a key was bound
C29_Witness ==
    /\ LaidOut
    /\ applied # <<>>
    /\ \E k \in 1..Len(slide) :
          ExpandableText(before.slide, k)
          /\ Look(slide[k]) # Look(before.slide[k])
    /\ \E k \in 1..Len(slide) :
          CompanionOfExpandable(before.slide, k)
          /\ Look(slide[k]) # Look(before.slide[k])
    /\ \E k \in 1..Len(slide) :
          has_text_frame(slide[k]) /\ ~ExpandableText(before.slide, k)

\* =================================================== the generation requests
(***************************************************************************)
(* src/web/ppt_generator/views.py: start_generation, and the three         *)
(* mark_... methods of PPTGeneration (src/web/ppt_generator/models.py).    *)
(*                                                                         *)
(* Every request is served by its own thread or process of the web server. *)
(* The view holds no lock and opens no transaction: get_object_or_404 is   *)
(* one SELECT, every save(update_fields=...) is one UPDATE, and the steps  *)
(* of different requests interleave between them.  A request keeps its own *)
(* generation object; what it tests at line 197 is the status it read.     *)
(* The pipeline (lines 205-345) is one step that ends well or raises.      *)
(***************************************************************************)
MaxJobs == 2
MaxRequests == 2

\* src/web/ppt_generator/models.py:175-180
STATUS_CHOICES == {"pending", "processing", "completed", "failed"}

Jobs == 1..MaxJobs
\* the pk of a request: a row of the table, or none of them
Pks == 1..(MaxJobs + 1)

\* a request that has not begun; found and saves are history: the status
\* line 195 read, and the number of UPDATEs the request has made
Request(pk) ==
    [pc |-> "get", pk |-> pk, status |-> "none", response |-> 0,
     found |-> "none", saves |-> 0]

\* self.save(update_fields=["status", ...]) of the generation object of r
Save(r, new_status) ==
    /\ job_status' = [job_status EXCEPT ![handler[r].pk] = new_status]
    /\ job_trail' = [job_trail EXCEPT ![handler[r].pk] = Append(@, new_status)]

\* src/web/ppt_generator/views.py:195
GetObject(r) ==
    /\ handler[r].pc = "get"
    /\ handler' = [handler EXCEPT ![r] =
          IF handler[r].pk \in DOMAIN job_status
          THEN [@ EXCEPT !.pc = "check",
                         !.status = job_status[handler[r].pk],
                         !.found = job_status[handler[r].pk]]
          ELSE [@ EXCEPT !.pc = "returned", !.response = 404]]
    /\ UNCHANGED <<assembly, binder, restorer, job_status, job_trail,
                   pipeline_runs>>

\* src/web/ppt_generator/views.py:197-200
CheckStatus(r) ==
    /\ handler[r].pc = "check"
    /\ handler' = [handler EXCEPT ![r] =
          IF handler[r].status # "pending"
          THEN [@ EXCEPT !.pc = "returned", !.response = 400]
          ELSE [@ EXCEPT !.pc = "mark"]]
    /\ UNCHANGED <<assembly, binder, restorer, job_status, job_trail,
                   pipeline_runs>>

\* src/web/ppt_generator/views.py:202-203, models.py:296-299: the pipeline
\* of this request begins
MarkProcessing(r) ==
    /\ handler[r].pc = "mark"
    /\ Save(r, "processing")
    /\ pipeline_runs' = [pipeline_runs EXCEPT ![handler[r].pk] = @ + 1]
    /\ handler' = [handler EXCEPT ![r] =
          [@ EXCEPT !.pc = "pipeline", !.status = "processing",
                    !.saves = @ + 1]]
    /\ UNCHANGED <<assembly, binder, restorer>>

\* src/web/ppt_generator/views.py:205-345: the files are found, the config
\* is generated, the slides are rendered; any of it may raise
RunPipeline(r) ==
    /\ handler[r].pc = "pipeline"
    /\ \E raises \in BOOLEAN :
          handler' = [handler EXCEPT ![r].pc =
                         IF raises THEN "except" ELSE "complete"]
    /\ UNCHANGED <<assembly, binder, restorer, job_status, job_trail,
                   pipeline_runs>>

\* src/web/ppt_generator/views.py:347-360, models.py:301-319
MarkCompleted(r) ==
    /\ handler[r].pc = "complete"
    /\ Save(r, "completed")
    /\ handler' = [handler EXCEPT ![r] =
          [@ EXCEPT !.pc = "returned", !.status = "completed",
                    !.response = 200, !.saves = @ + 1]]
    /\ UNCHANGED <<assembly, binder, restorer, pipeline_runs>>

\* src/web/ppt_generator/views.py:362-373, models.py:321-325
MarkFailed(r) ==
    /\ handler[r].pc = "except"
    /\ Save(r, "failed")
    /\ handler' = [handler EXCEPT ![r] =
          [@ EXCEPT !.pc = "returned", !.status = "failed",
                    !.response = 500, !.saves = @ + 1]]
    /\ UNCHANGED <<assembly, binder, restorer, pipeline_runs>>

\* rows in any status, and MaxRequests requests, each for any pk
StartInit ==
    /\ AssemblyIdle
    /\ BinderIdle
    /\ RestorerIdle
    /\ \E rows \in [Jobs -> STATUS_CHOICES], pks \in [1..MaxRequests -> Pks] :
          /\ job_status = rows
          /\ handler = [r \in 1..MaxRequests |-> Request(pks[r])]
          /\ job_trail = [j \in Jobs |-> <<rows[j]>>]
          /\ pipeline_runs = [j \in Jobs |-> 0]

StartNext ==
    \/ \E r \in DOMAIN handler : GetObject(r)
    \/ \E r \in DOMAIN handler : CheckStatus(r)
    \/ \E r \in DOMAIN handler : MarkProcessing(r)
    \/ \E r \in DOMAIN handler : RunPipeline(r)
    \/ \E r \in DOMAIN handler : MarkCompleted(r)
    \/ \E r \in DOMAIN handler : MarkFailed(r)

StartSpec == StartInit /\ [][StartNext]_vars


\* ====================================================== claims: the requests
\* the moves of a status the claim allows
AllowedMoves ==
    {<<"pending", "processing">>, <<"processing", "completed">>,
     <<"processing", "failed">>}

\* the pipeline of every row began at most once
StartedAtMostOnce == \A j \in DOMAIN pipeline_runs : pipeline_runs[j] <= 1

\* a request goes past line 197 only for a row it found pending; one that
\* found another status answers 400 and has written nothing
OnlyPendingRuns ==
    \A r \in DOMAIN handler :
        /\ (handler[r].pc \in {"mark", "pipeline", "complete", "except"}
              \/ handler[r].saves > 0)
           => handler[r].found = "pending"
        /\ (handler[r].pc = "returned"
              /\ handler[r].found \notin {"none", "pending"})
           => handler[r].response = 400 /\ handler[r].saves = 0

\* every row went through allowed moves only
OnlyAllowedMoves ==
    \A j \in DOMAIN job_trail :
        \A k \in 1..(Len(job_trail[j]) - 1) :
            <<job_trail[j][k], job_trail[j][k + 1]>> \in AllowedMoves

\* C30: under any interleaving of start_generation requests the pipeline of
\* a job is started at most once; a request runs it only for a job in status
\* pending, a request that finds another status returns an error and leaves
\* the job as it is, and the status moves only pending -> processing ->
\* completed or pending -> processing -> failed.
C30_StartedAtMostOnce ==
    StartedAtMostOnce /\ OnlyPendingRuns /\ OnlyAllowedMoves

====
